---- MODULE Spec2Model ----
(***************************************************************************)
(* Verification model of the consensus core: the Snowman Topological       *)
(* consensus instance (snow/consensus/snowman/topological.go), the         *)
(* Transitive engine that hosts it, the request Timeout Manager and the     *)
(* bootstrap job queue.                                                     *)
(***************************************************************************)
EXTENDS Integers, Sequences, FiniteSets, TLC

\* ------------------------------------------------------------------ bounds
\* Number of non-genesis blocks the VM / the peers can produce.
NumBlocks == 4
\* Number of RecordPoll calls explored in one behaviour.
MaxPolls == 3
\* Number of validators a request can be sent to.
NumValidators == 3
\* Number of request ids the sender uses.
MaxRequests == 1
\* The last instant of the clock.
MaxTime == 3
\* The longest timeout duration the adaptive timeout yields.
MaxDuration == 2
\* Number of GetAncestors failures the bootstrapper retries after.
MaxAttempts == 2
\* Number of blocks the engine is handed.
MaxEngineBlocks == 2
\* The last request id the engine uses.
MaxRequestID == 2
\* The most Blockables the Blocker holds.
MaxBlocked == 2

\* -------------------------------------------------- snowball.Parameters
\* The parameter set the instances of most specifications are initialized
\* with; a valid parameter set has K/2 < Alpha <= K and
\* 0 < BetaVirtuous <= BetaRogue.
DefaultParameters == [K |-> 3, Alpha |-> 2, BetaVirtuous |-> 1, BetaRogue |-> 2]

\* Number of polls the engine keeps outstanding.
ConcurrentRepolls == 1

\* ------------------------------------------------------------ identifiers
\* The id of the last accepted block handed to Initialize.
GenesisID == 0
\* The ids of the candidate blocks.
BlockIDs == 1..NumBlocks
\* Every id.
IDs == 0..NumBlocks
\* ids.ID{}: the empty id, also used for a nil block pointer.
Empty == -1
\* The request id the peers use in their queries.
PeerRequestID == 0

VARIABLES
    handler,  \* the router's Handler of one chain and the threads that run in it
    index,    \* the indexer's index, its read-write lock and the calls made on it
    multiput, \* the VM's chain of stored blocks and the MultiPut replies sent
    params,   \* the snowball.Parameters the consensus instances were initialized with
    rounds,   \* the id that had the alpha majority in every RecordPoll so far
    boot,     \* the common Bootstrapper: its pending beacons and the weights it gathered
    sender,   \* the Sender, with what it handed to the network, the router and the timeouts
    parent,   \* Block.Parent(): the parent id of every candidate block
    ts,       \* the Topological instance and the blocks / dispatchers it drives
    mgr,      \* the timeout Manager, its timer, its executor and what they did
    bs,       \* the bootstrapper: its requests, its jobs queue and the VM's blocks
    engine    \* the Transitive engine with its consensus instance

\* Sample size of one poll.
K == params.K
\* Quorum threshold.
Alpha == params.Alpha
\* Commit threshold of an instance that has seen one choice only.
BetaVirtuous == params.BetaVirtuous
\* Commit threshold of an instance that has seen conflicting choices.
BetaRogue == params.BetaRogue

\* ------------------------------------------------------------------ ids.Bag
\* A bag of ids is a total function from ids to counts.
EmptyBag == [i \in IDs |-> 0]

RECURSIVE SumUpTo(_, _)
SumUpTo(bag, n) == IF n < 0 THEN 0 ELSE bag[n] + SumUpTo(bag, n - 1)

\* Bag.Len(): the number of votes in the bag.
BagLen(bag) == SumUpTo(bag, NumBlocks)

\* Bag.AddCount(id, count)
AddCount(bag, id, count) == [bag EXCEPT ![id] = @ + count]

\* The ids with a positive count: the elements of Bag.List().
BagIDs(bag) == {i \in IDs : bag[i] > 0}

\* Bag.Mode(): an id of highest count (ties: the lowest id) and its count.
ModeFreq(bag) == LET m == CHOOSE i \in IDs : \A j \in IDs : bag[j] <= bag[i]
                 IN bag[m]

ModeID(bag) == CHOOSE i \in IDs : bag[i] = ModeFreq(bag)
                                   /\ \A j \in IDs : bag[j] = ModeFreq(bag) => i <= j

\* All the orders in which the elements of a set can be listed: Go lists a
\* set or a bag by ranging over a map, whose order is unspecified.
Orders(S) == {s \in [1..Cardinality(S) -> S] : \A i, j \in 1..Cardinality(S) : s[i] = s[j] => i = j}

\* All bags holding at most n votes.
BagsUpTo(n) == {b \in [IDs -> 0..n] : BagLen(b) <= n}

\* The vote bags one poll of K validators can produce.
VoteBags == BagsUpTo(K)

\* ------------------------------------------------------------ choices.Status
Decided(s) == s \in {"Accepted", "Rejected"}

\* ------------------------------------------------------- snowball instance
\* The n-ary Snowball instance of a node: the preference by total successful
\* polls, the Snowflake preference with its consecutive-success confidence,
\* whether a conflicting choice was added, and whether it is finalized.
NoSb == [nil |-> TRUE]

sbInitialize(choice) ==
    [nil |-> FALSE, preference |-> choice, maxSuccessfulPolls |-> 0,
     numSuccessfulPolls |-> EmptyBag, sfPreference |-> choice, confidence |-> 0,
     rogue |-> FALSE, finalized |-> FALSE]

sbAdd(sb, choice) == [sb EXCEPT !.rogue = @ \/ choice # sb.sfPreference]

sbFinalized(sb) == sb.finalized

sbPreference(sb) == IF sb.finalized THEN sb.sfPreference ELSE sb.preference

sbRecordUnsuccessfulPoll(sb) == [sb EXCEPT !.confidence = 0]

sbRecordSuccessfulPoll(sb, choice) ==
    LET n == sb.numSuccessfulPolls[choice] + 1
        ball == [sb EXCEPT !.numSuccessfulPolls[choice] = n,
                           !.preference = IF n > sb.maxSuccessfulPolls THEN choice ELSE @,
                           !.maxSuccessfulPolls = IF n > @ THEN n ELSE @]
        conf == IF sb.sfPreference = choice THEN sb.confidence + 1 ELSE 1
    IN IF sb.finalized THEN ball
       ELSE [ball EXCEPT !.sfPreference = choice, !.confidence = conf,
                         !.finalized = (~sb.rogue /\ conf >= BetaVirtuous) \/ conf >= BetaRogue]

sbRecordPoll(sb, votes) ==
    IF ModeFreq(votes) >= Alpha
    THEN sbRecordSuccessfulPoll(sb, ModeID(votes))
    ELSE sbRecordUnsuccessfulPoll(sb)

\* ------------------------------------------------------------ snowmanBlock
\* One node of the tree: the block it holds (Empty for the node Initialize
\* creates), its children, their Snowball instance, and the falter flag.
NewNode(blk) == [blk |-> blk, children |-> {}, sb |-> NoSb, shouldFalter |-> FALSE]

AddChild(n, child) ==
    [n EXCEPT !.sb = IF n.sb = NoSb THEN sbInitialize(child) ELSE sbAdd(n.sb, child),
              !.children = @ \cup {child}]

\* delete(map, key)
Delete(f, k) == [x \in (DOMAIN f) \ {k} |-> f[x]]

\* map[key] = value
Store(f, k, v) == [x \in (DOMAIN f) \cup {k} |-> IF x = k THEN v ELSE f[x]]

\* -------------------------------------------------------------- Topological
\* The record c holds the Topological fields head, blocks and tail, the
\* status of every block (Block.Status), and what the dispatchers were told:
\* issued (the ids passed to Issue), accepted (the ids passed to Accept, in
\* order) and rejected (how many times Reject was called on each id);
\* removed is the set of ids rejectTransitively deleted from blocks, and
\* polls counts the RecordPoll calls.
Initialize(rootID) ==
    [head |-> rootID,
     blocks |-> [x \in {rootID} |-> NewNode(Empty)],
     tail |-> rootID,
     status |-> [i \in IDs |-> IF i = rootID THEN "Accepted" ELSE "Processing"],
     issued |-> {},
     accepted |-> <<>>,
     rejected |-> [i \in IDs |-> 0],
     removed |-> {},
     polls |-> 0]

\* blk.Reject() with the Reject notifications that follow it.
Reject(c, id) == [c EXCEPT !.status[id] = "Rejected", !.rejected[id] = @ + 1]

\* Add that drops a block with a missing parent without rejecting it.
AddWithoutReject(c, blk) ==
    LET parentID == parent[blk]
        c1 == [c EXCEPT !.issued = @ \cup {blk}]
    IN IF parentID \notin DOMAIN c1.blocks
       THEN c1
       ELSE [c1 EXCEPT !.blocks = Store(Store(c1.blocks, parentID, AddChild(c1.blocks[parentID], blk)),
                                        blk, NewNode(blk)),
                       !.tail = IF c1.tail = parentID THEN blk ELSE @]

Add(c, blk) ==
    LET parentID == parent[blk]
        c1 == [c EXCEPT !.issued = @ \cup {blk}]
    IN IF parentID \notin DOMAIN c1.blocks
       THEN Reject(c1, blk)
       ELSE [c1 EXCEPT !.blocks = Store(Store(c1.blocks, parentID, AddChild(c1.blocks[parentID], blk)),
                                        blk, NewNode(blk)),
                       !.tail = IF c1.tail = parentID THEN blk ELSE @]

Issued(c, blk) == Decided(c.status[blk]) \/ blk \in DOMAIN c.blocks

Preference(c) == c.tail

Finalized(c) == Cardinality(DOMAIN c.blocks) = 1

\* kahnNode per id: seen says the id is a key of the kahns map.
NoKahns == [i \in IDs |-> [seen |-> FALSE, inDegree |-> 0, votes |-> EmptyBag]]

\* The inner loop of calculateInDegree: walk from parentKey toward the root.
RECURSIVE walkUp(_, _, _)
walkUp(c, parentKey, kl) ==
    IF parentKey \notin DOMAIN c.blocks THEN kl
    ELSE LET n == c.blocks[parentKey] IN
         IF n.blk = Empty \/ Decided(c.status[n.blk]) THEN kl
         ELSE LET pid == parent[n.blk]
                  ks == [kl.kahns EXCEPT ![pid].seen = TRUE, ![pid].inDegree = @ + 1]
              IN IF ks[pid].inDegree = 1
                 THEN walkUp(c, pid, [kahns |-> ks, leaves |-> kl.leaves \ {pid}])
                 ELSE [kahns |-> ks, leaves |-> kl.leaves]

\* calculateInDegree, with order the order in which votes.List() lists the ids.
RECURSIVE calculateInDegreeFrom(_, _, _, _, _)
calculateInDegreeFrom(c, votes, order, i, kl) ==
    IF i > Len(order) THEN kl
    ELSE LET vote == order[i]
             validVote == vote \in DOMAIN c.blocks
         IN IF validVote /\ c.blocks[vote].blk # Empty /\ ~Decided(c.status[c.blocks[vote].blk])
            THEN LET parentID == parent[c.blocks[vote].blk]
                     previouslySeen == kl.kahns[parentID].seen
                     ks == [kl.kahns EXCEPT ![parentID].seen = TRUE,
                                            ![parentID].votes = AddCount(@, vote, votes[vote])]
                 IN IF previouslySeen
                    THEN calculateInDegreeFrom(c, votes, order, i + 1, [kahns |-> ks, leaves |-> kl.leaves])
                    ELSE calculateInDegreeFrom(c, votes, order, i + 1,
                            walkUp(c, parentID, [kahns |-> ks, leaves |-> kl.leaves \cup {parentID}]))
            ELSE calculateInDegreeFrom(c, votes, order, i + 1, kl)

calculateInDegree(c, votes, order) ==
    calculateInDegreeFrom(c, votes, order, 1, [kahns |-> NoKahns, leaves |-> {}])

\* pushVotes: leaves is the list of leaves, popped from its end.
RECURSIVE pushVotes(_, _, _, _)
pushVotes(c, kahnNodes, leaves, voteStack) ==
    IF leaves = <<>> THEN voteStack
    ELSE LET newLeavesSize == Len(leaves) - 1
             leaf == leaves[Len(leaves)]
             rest == SubSeq(leaves, 1, newLeavesSize)
             kahn == kahnNodes[leaf]
         IN IF leaf \notin DOMAIN c.blocks THEN pushVotes(c, kahnNodes, rest, voteStack)
            ELSE LET node == c.blocks[leaf]
                     stack == IF BagLen(kahn.votes) >= Alpha
                              THEN Append(voteStack, [parentID |-> leaf, votes |-> kahn.votes])
                              ELSE voteStack
                 IN IF node.blk = Empty \/ Decided(c.status[node.blk])
                    THEN pushVotes(c, kahnNodes, rest, stack)
                    ELSE LET parentID == parent[node.blk] IN
                         IF kahnNodes[parentID].seen
                         THEN LET ks == [kahnNodes EXCEPT ![parentID].inDegree = @ - 1,
                                                          ![parentID].votes = AddCount(@, leaf, BagLen(kahn.votes))]
                              IN pushVotes(c, ks,
                                           IF ks[parentID].inDegree = 0 THEN Append(rest, parentID) ELSE rest,
                                           stack)
                         ELSE pushVotes(c, kahnNodes, rest, stack)

\* The blocks rejectTransitively rejects along with a rejected node.
dependentsNone(rejectNode) == {}

dependents(rejectNode) == rejectNode.children

\* rejectTransitively that leaves the rejected blocks in the tree.
rejectTransitivelyKeepsNodes(c, rejected) == c

\* rejectTransitively: rejected is the set of ids still to be removed.
RECURSIVE rejectTransitively(_, _)
rejectTransitively(c, rejected) ==
    IF rejected = {} THEN c
    ELSE LET rejectID == CHOOSE r \in rejected : TRUE
             rejectNode == c.blocks[rejectID]
             RECURSIVE rejectAll(_, _)
             rejectAll(cc, S) == IF S = {} THEN cc
                                 ELSE LET x == CHOOSE y \in S : TRUE
                                      IN rejectAll(Reject(cc, x), S \ {x})
             c1 == rejectAll([c EXCEPT !.blocks = Delete(@, rejectID), !.removed = @ \cup {rejectID}],
                             dependents(rejectNode))
         IN rejectTransitively(c1, (rejected \ {rejectID}) \cup dependents(rejectNode))

\* The first half of accept with the preference rejected as well, but left in
\* the tree.
acceptRejectsAll(c, key) ==
    LET n == c.blocks[key]
        pref == sbPreference(n.sb)
        rejects == n.children \ {pref}
        RECURSIVE rejectAll(_, _)
        rejectAll(cc, S) == IF S = {} THEN cc
                            ELSE LET x == CHOOSE y \in S : TRUE
                                 IN rejectAll(Reject(cc, x), S \ {x})
    IN rejectTransitively(rejectAll(c, n.children), rejects)

\* The first half of accept(n), with n the node stored under key: reject
\* every child but the preference, and what depends on them.
acceptRejects(c, key) ==
    LET n == c.blocks[key]
        pref == sbPreference(n.sb)
        rejects == n.children \ {pref}
        RECURSIVE rejectAll(_, _)
        rejectAll(cc, S) == IF S = {} THEN cc
                            ELSE LET x == CHOOSE y \in S : TRUE
                                 IN rejectAll(Reject(cc, x), S \ {x})
    IN rejectTransitively(rejectAll(c, rejects), rejects)

\* accept without the move of the head.
acceptKeepHead(c, key) ==
    LET pref == sbPreference(c.blocks[key].sb)
    IN [acceptRejects(c, key) EXCEPT !.accepted = Append(@, pref),
                                     !.status[pref] = "Accepted"]

\* accept(n): the preference becomes the head and is accepted.
accept(c, key) ==
    LET pref == sbPreference(c.blocks[key].sb)
    IN [acceptRejects(c, key) EXCEPT !.head = pref,
                                     !.accepted = Append(@, pref),
                                     !.status[pref] = "Accepted"]

\* "Only accept when you are finalized and the head."
shouldAcceptAnyNode(c, sb, key) == sbFinalized(sb)

shouldAccept(c, sb, key) == sbFinalized(sb) /\ c.head = key

\* The loop of vote: st holds the consensus record, the remaining stack, and
\* the locals onTail and tail.
RECURSIVE voteLoop(_)
voteLoop(st) ==
    IF st.voteStack = <<>> THEN st
    ELSE LET newStackSize == Len(st.voteStack) - 1
             voteGroup == st.voteStack[Len(st.voteStack)]
             voteStack == SubSeq(st.voteStack, 1, newStackSize)
             key == voteGroup.parentID
             c == st.c
         IN IF key \notin DOMAIN c.blocks THEN st
            ELSE LET parentNode == c.blocks[key]
                     shouldTransFalter == parentNode.shouldFalter
                     sb0 == IF parentNode.shouldFalter
                            THEN sbRecordUnsuccessfulPoll(parentNode.sb)
                            ELSE parentNode.sb
                     sb1 == sbRecordPoll(sb0, voteGroup.votes)
                     c1 == [c EXCEPT !.blocks[key].sb = sb1, !.blocks[key].shouldFalter = FALSE]
                     accepts == shouldAccept(c1, sb1, key)
                     c2 == IF accepts
                           THEN LET ca == accept(c1, key) IN [ca EXCEPT !.blocks = Delete(@, key)]
                           ELSE c1
                     tail1 == IF accepts THEN sbPreference(sb1) ELSE st.tail
                     nextID == IF Len(voteStack) > 0 THEN voteStack[newStackSize].parentID ELSE Empty
                     onTail == st.onTail /\ nextID = sbPreference(sb1)
                     tail2 == IF onTail THEN nextID ELSE tail1
                     falter == {ch \in parentNode.children :
                                   (shouldTransFalter \/ ch # nextID) /\ ch \in DOMAIN c2.blocks}
                     c3 == [c2 EXCEPT !.blocks = [x \in DOMAIN c2.blocks |->
                                 IF x \in falter THEN [c2.blocks[x] EXCEPT !.shouldFalter = TRUE]
                                                 ELSE c2.blocks[x]]]
                 IN voteLoop([c |-> c3, voteStack |-> voteStack, onTail |-> onTail, tail |-> tail2])

\* vote that leaves the head as it is when no vote was pushed.
voteWithoutFalter(c, voteStack) ==
    IF Len(voteStack) = 0
    THEN [c |-> c, tail |-> c.tail]
    ELSE LET st == voteLoop([c |-> c, voteStack |-> voteStack, onTail |-> TRUE, tail |-> c.head])
         IN [c |-> st.c, tail |-> st.tail]

\* vote returns the consensus record and the id it returns.
vote(c, voteStack) ==
    IF Len(voteStack) = 0
    THEN [c |-> [c EXCEPT !.blocks[c.head].shouldFalter = TRUE], tail |-> c.tail]
    ELSE LET st == voteLoop([c |-> c, voteStack |-> voteStack, onTail |-> TRUE, tail |-> c.head])
         IN [c |-> st.c, tail |-> st.tail]

\* getPreferredDecendent that stops at the block it is given.
getPreferredDecendentSelf(c, blkID) == blkID

RECURSIVE getPreferredDecendent(_, _)
getPreferredDecendent(c, blkID) ==
    IF c.blocks[blkID].sb # NoSb
    THEN getPreferredDecendent(c, sbPreference(c.blocks[blkID].sb))
    ELSE blkID

\* RecordPoll once calculateInDegree has run; leafOrder is leaves.List().
RecordPollFrom(c, kahnGraph, leafOrder) ==
    LET voteStack == pushVotes(c, kahnGraph, leafOrder, <<>>)
        v == vote(c, voteStack)
    IN [v.c EXCEPT !.tail = getPreferredDecendent(v.c, v.tail), !.polls = @ + 1]

\* Every state RecordPoll(votes) can leave, over the orders of the two lists.
RecordPoll(c, votes) ==
    UNION {LET kl == calculateInDegree(c, votes, voteOrder)
           IN {RecordPollFrom(c, kl.kahns, leafOrder) : leafOrder \in Orders(kl.leaves)} :
           voteOrder \in Orders(BagIDs(votes))}

\* ------------------------------------------------------- timeout.Manager
Validators == 1..NumValidators
RequestIDs == 1..MaxRequests
ChainIDs == {"chain"}

\* createRequestID hashes the validator, the chain and the request id; the
\* hash is taken to be free of collisions. The message type is no part of it.
createRequestID(validatorID, chainID, requestID) == <<validatorID, chainID, requestID>>

Fingerprints == {createRequestID(v, c, r) : v \in Validators, c \in ChainIDs, r \in RequestIDs}

\* The Manager m: now is the clock, timeouts the timer's map from request to
\* deadline, handlers the callbacks the timer has taken out of the map and
\* not run yet, executor the queue of the executor. The other fields record
\* what happened: registered (Register returned true), benched (Register
\* returned false), deadline, fired (how many times timeout() ran),
\* removedBy (the call that took the entry out of the map), cancelled (a
\* Cancel has returned), firedAfterCancel, firedEarly, responded, and
\* observed (the Put and GetFailed messages handed to the engine, in order).
ManagerInitialize ==
    [now |-> 0,
     timeouts |-> [x \in {} |-> 0],
     handlers |-> {},
     executor |-> <<>>,
     registered |-> {},
     benched |-> {},
     deadline |-> [x \in {} |-> 0],
     fired |-> [id \in Fingerprints |-> 0],
     removedBy |-> [id \in Fingerprints |-> "none"],
     cancelled |-> {},
     firedAfterCancel |-> {},
     firedEarly |-> {},
     responded |-> {},
     observed |-> [id \in Fingerprints |-> <<>>]]

\* AdaptiveTimeoutManager.Put: the entry of id is (re)placed, due after the
\* current timeout duration.
tmPut(m, id, duration) ==
    [m EXCEPT !.timeouts = Store(@, id, m.now + duration),
              !.deadline = Store(@, id, m.now + duration)]

\* AdaptiveTimeoutManager.Remove
tmRemove(m, id) == [m EXCEPT !.timeouts = Delete(@, id)]

\* Executor.Add
executorAdd(m, id) == [m EXCEPT !.executor = Append(@, id)]

\* Register; ok is the answer of benchlist.RegisterQuery.
Register(m, validatorID, chainID, requestID, register, ok, duration) ==
    LET id == createRequestID(validatorID, chainID, requestID)
    IN IF register /\ ~ok
       THEN [executorAdd(m, id) EXCEPT !.benched = @ \cup {id}]
       ELSE [tmPut(m, id, duration) EXCEPT !.registered = @ \cup {id}]

RegisterFailure(m, validatorID, chainID, requestID) ==
    LET id == createRequestID(validatorID, chainID, requestID)
    IN [tmRemove(m, id) EXCEPT
           !.removedBy[id] = IF id \in DOMAIN m.timeouts THEN "RegisterFailure" ELSE @]

Cancel(m, validatorID, chainID, requestID) ==
    LET id == createRequestID(validatorID, chainID, requestID)
    IN [tmRemove(m, id) EXCEPT
           !.removedBy[id] = IF id \in DOMAIN m.timeouts THEN "Cancel" ELSE @,
           !.cancelled = @ \cup {id}]

\* timeout(): the function given to Register; for a Get it hands GetFailed
\* to the engine.
timeout(m, id) ==
    [m EXCEPT !.fired[id] = @ + 1,
              !.firedAfterCancel = IF id \in m.cancelled THEN @ \cup {id} ELSE @,
              !.firedEarly = IF id \in DOMAIN m.deadline /\ m.now < m.deadline[id]
                             THEN @ \cup {id} ELSE @,
              !.observed[id] = Append(@, "GetFailed")]

\* The function Register stores in the timer: benchlist.QueryFailed, then
\* timeout().
storedCallback(m, id) == timeout(m, id)

\* ------------------------------------------------------------ bootstrapper
\* The blocks from blk up to the root: blk and its ancestors.
RECURSIVE Lineage(_)
Lineage(blk) == IF blk = GenesisID THEN {GenesisID} ELSE {blk} \cup Lineage(parent[blk])

\* The bootstrapper q of a node whose VM has accepted lastAccepted and its
\* ancestors: local is what the VM knew at the start, vmAccepted what it has
\* accepted, log the blocks accepted since, in order, accepted the ids the
\* beacons agreed on, outstanding the ids asked for with GetAncestors, jobs
\* the jobs queue, attempts the failed requests, responses the MultiPut
\* messages handled, finished whether bootstrapping is over.
BootstrapperInitialize(lastAccepted) ==
    [local |-> Lineage(lastAccepted),
     vmAccepted |-> Lineage(lastAccepted),
     lastAccepted |-> lastAccepted,
     log |-> <<>>,
     accepted |-> {},
     outstanding |-> {},
     jobs |-> {},
     attempts |-> 0,
     responses |-> 0,
     finished |-> FALSE]

\* A block is known locally when the VM has accepted it or a job holds it.
knownLocally(q, blkID) == blkID \in q.vmAccepted \/ blkID \in q.jobs

\* Ancestor-fetch starts: GetAncestors for every accepted id not known.
ForceAccepted(q, acceptedContainerIDs) ==
    [q EXCEPT !.accepted = acceptedContainerIDs,
              !.outstanding = {id \in acceptedContainerIDs : ~knownLocally(q, id)}]

\* The response to GetAncestors(blkID) that carries n containers: the block
\* first, then its parents, never past the root.
RECURSIVE Ancestors(_, _)
Ancestors(blkID, n) ==
    IF n = 0 \/ blkID = GenesisID THEN <<>>
    ELSE <<blkID>> \o Ancestors(parent[blkID], n - 1)

\* The containers of a response are handled in order: each block not known
\* yet becomes a job blocked on its parent; when the parent of the last one
\* is unknown and not asked for, it is requested.
RECURSIVE process(_, _, _)
process(q, containers, i) ==
    LET blk == containers[i]
        q1 == [q EXCEPT !.jobs = @ \cup {blk}]
    IN IF knownLocally(q, blk) THEN q
       ELSE IF i < Len(containers) THEN process(q1, containers, i + 1)
       ELSE IF knownLocally(q1, parent[blk]) \/ parent[blk] \in q1.outstanding THEN q1
       ELSE [q1 EXCEPT !.outstanding = @ \cup {parent[blk]}]

\* MultiPut: the answer to the outstanding request for blkID.
MultiPut(q, blkID, containers) ==
    [process([q EXCEPT !.outstanding = @ \ {blkID}], containers, 1) EXCEPT !.responses = @ + 1]

\* A job that runs whatever the state of its parent.
runnableAlways(q, blk) == TRUE

\* A job is runnable when its parent is Accepted.
runnable(q, blk) == parent[blk] \in q.vmAccepted

\* The job of blk is executed: the VM accepts the block.
executeJob(q, blk) ==
    [q EXCEPT !.jobs = @ \ {blk},
              !.vmAccepted = @ \cup {blk},
              !.log = Append(@, blk),
              !.lastAccepted = blk]

\* --------------------------------------------------------------- Transitive
\* The blocks the engine can be handed.
EngineBlockIDs == 1..MaxEngineBlocks

\* Status.Fetched()
Fetched(s) == s # "Unknown"

\* Validators.Sample(size): the validators polled; fewer than size when the
\* validator set is smaller. Validators are interchangeable to the engine.
Sample(size) ==
    IF NumValidators < size THEN Validators
    ELSE CHOOSE S \in SUBSET Validators : Cardinality(S) = size

\* The children of a block among the blocks of the engine: of the blocks
\* that hang off the root, those the engine can be handed.
ChildrenOf(blkID) ==
    {x \in BlockIDs : parent[x] = blkID /\ (blkID = GenesisID => x \in EngineBlockIDs)}

\* The engine e: bootstrapped is Context.IsBootstrapped, consensus the
\* Topological instance together with the status of every block, polls the
\* poll set, blkReqs the outstanding Get requests, keyed by validator and
\* request id, pending the fetched blocks not delivered yet, blocked the
\* Blocker (for each id, the list of what waits for it), RequestID the last
\* request id used, and vmPreference the argument of the last
\* VM.SetPreference. invalid holds the blocks whose Verify fails and oracle
\* the block, if any, that is an OracleBlock. recordPolls records the
\* RecordPoll calls, each with the request id of its poll, the number of
\* responses applied to the poll and whether it could no longer succeed.
\* insertFromCall records the last call of insertFrom: its block while the
\* call runs, then the value returned and whether the block was issued at
\* that moment.
TransitiveInitialize(invalid, oracle) ==
    [bootstrapped |-> FALSE,
     consensus |-> [Initialize(GenesisID) EXCEPT
                       !.status = [i \in IDs |-> IF i = GenesisID THEN "Accepted" ELSE "Unknown"]],
     polls |-> [x \in {} |-> 0],
     blkReqs |-> [x \in {} |-> 0],
     pending |-> {},
     blocked |-> [x \in {} |-> <<>>],
     RequestID |-> 0,
     vmPreference |-> GenesisID,
     invalid |-> invalid,
     oracle |-> oracle,
     recordPolls |-> <<>>,
     verifyFailed |-> {},
     queried |-> {},
     insertFromCall |-> [blk |-> Empty, returned |-> FALSE, added |-> FALSE, issued |-> FALSE]]

\* OracleBlock.Options(): the two options of the oracle block.
Options(e, blk) ==
    IF e.oracle # blk THEN <<>>
    ELSE LET first == CHOOSE x \in ChildrenOf(blk) : \A y \in ChildrenOf(blk) : x <= y
             others == ChildrenOf(blk) \ {first}
             second == CHOOSE x \in others : \A y \in others : x <= y
         IN <<first, second>>

\* VM.ParseBlock, VM.BuildBlock, Options: the VM now holds the block.
parsed(e, blk) ==
    [e EXCEPT !.consensus.status[blk] = IF @ = "Unknown" THEN "Processing" ELSE @]

\* common.Requests
requestsContains(reqs, containerID) == \E k \in DOMAIN reqs : reqs[k] = containerID

requestsAdd(reqs, vdr, requestID, containerID) == Store(reqs, <<vdr, requestID>>, containerID)

requestsRemoveAny(reqs, containerID) ==
    [k \in {x \in DOMAIN reqs : reqs[x] # containerID} |-> reqs[k]]

\* poll.Set with the early-termination poll: polled are the validators that
\* have not answered, votes the votes received, sampled the validators asked.
pollNew(vdrs) == [polled |-> vdrs, votes |-> EmptyBag, sampled |-> vdrs]

pollVote(p, vdr, response) ==
    IF vdr \notin p.polled THEN p
    ELSE [p EXCEPT !.polled = @ \ {vdr}, !.votes = AddCount(@, response, 1)]

pollDrop(p, vdr) == [p EXCEPT !.polled = @ \ {vdr}]

\* The poll can no longer reach alpha votes for one block.
pollCannotSucceed(p) == ModeFreq(p.votes) + Cardinality(p.polled) < Alpha

\* A poll that is finished whatever it has received.
pollFinishedAlways(p) == TRUE

pollFinished(p) ==
    \/ Cardinality(p.polled) = 0
    \/ ModeFreq(p.votes) >= Alpha
    \/ pollCannotSucceed(p)

\* pullSample and pushSample leave the same state: a fresh request id and,
\* when K validators were sampled, a new poll under it and the query for the
\* block sent; queried keeps the blocks the queries were for.
pullSample(e, blkID) ==
    LET vdrs == Sample(K)
        requestID == e.RequestID + 1
        added == Cardinality(vdrs) = K /\ requestID \notin DOMAIN e.polls
    IN [e EXCEPT !.RequestID = requestID,
                 !.polls = IF added THEN Store(@, requestID, pollNew(vdrs)) ELSE @,
                 !.queried = IF added THEN @ \cup {blkID} ELSE @]

pushSample(e, blk) == pullSample(e, blk)

RECURSIVE repollFrom(_, _)
repollFrom(e, i) ==
    IF i < ConcurrentRepolls
    THEN repollFrom(pullSample(e, Preference(e.consensus)), i + 1)
    ELSE e

repoll(e) == repollFrom(e, Cardinality(DOMAIN e.polls))

\* sendRequest without the check for an outstanding request.
sendRequestAlways(e, vdr, blkID) ==
    [e EXCEPT !.RequestID = @ + 1,
              !.blkReqs = requestsAdd(@, vdr, e.RequestID + 1, blkID)]

sendRequest(e, vdr, blkID) ==
    IF requestsContains(e.blkReqs, blkID) THEN e
    ELSE [e EXCEPT !.RequestID = @ + 1,
                   !.blkReqs = requestsAdd(@, vdr, e.RequestID + 1, blkID)]

\* voter.bubbleVotes: each vote moves up to the nearest issued block and is
\* kept when that block is not decided.
RECURSIVE nearestIssued(_, _)
nearestIssued(e, blk) ==
    IF Fetched(e.consensus.status[blk]) /\ ~Issued(e.consensus, blk)
    THEN nearestIssued(e, parent[blk])
    ELSE blk

RECURSIVE bubbleVotesFrom(_, _, _)
bubbleVotesFrom(e, votes, S) ==
    IF S = {} THEN EmptyBag
    ELSE LET voteID == CHOOSE x \in S : TRUE
             rest == bubbleVotesFrom(e, votes, S \ {voteID})
             blk == nearestIssued(e, voteID)
         IN IF ~Fetched(e.consensus.status[voteID]) THEN rest
            ELSE IF ~Decided(e.consensus.status[blk]) /\ Issued(e.consensus, blk)
                 THEN AddCount(rest, blk, votes[voteID])
                 ELSE rest

bubbleVotes(e, votes) == bubbleVotesFrom(e, votes, BagIDs(votes))

\* The Blockables: an issuer of blk, a voter for (vdr, requestID) with its
\* response (Empty for a failed query), a convincer for (vdr, requestID).
issuer(blk) == [kind |-> "issuer", blk |-> blk, vdr |-> Empty, requestID |-> Empty, response |-> Empty]

voter(vdr, requestID, response) ==
    [kind |-> "voter", blk |-> Empty, vdr |-> vdr, requestID |-> requestID, response |-> response]

convincer(vdr, requestID) ==
    [kind |-> "convincer", blk |-> Empty, vdr |-> vdr, requestID |-> requestID, response |-> Empty]

\* The calls one handler makes are run from a stack of frames: a frame is a
\* call still to be made, each operation below yields the states it can
\* leave (RecordPoll depends on the order in which Go lists the votes and
\* the leaves), each with the calls k it makes next, in order, and with the
\* value ret it returns, if it returns one.
Frame(op, blk, vdr, b) == [op |-> op, blk |-> blk, vdr |-> vdr, b |-> b]

Ret(e, k) == {[e |-> e, k |-> k, ret |-> {}]}

RetAdded(e, k, added) == {[e |-> e, k |-> k, ret |-> {added}]}

\* The frames to make one call for each element of a sequence.
FramesOf(op, blks) == [i \in 1..Len(blks) |-> Frame(op, blks[i], Empty, issuer(Empty))]

\* voter.Update once its dependency is gone.
voterUpdate(e, v) ==
    IF v.requestID \notin DOMAIN e.polls THEN {e}
    ELSE LET p == IF v.response = Empty
                  THEN pollDrop(e.polls[v.requestID], v.vdr)
                  ELSE pollVote(e.polls[v.requestID], v.vdr, v.response)
         IN IF ~pollFinished(p) THEN {[e EXCEPT !.polls[v.requestID] = p]}
            ELSE LET e1 == [e EXCEPT !.polls = Delete(@, v.requestID),
                                     !.recordPolls = Append(@,
                                         [requestID |-> v.requestID,
                                          responses |-> Cardinality(p.sampled \ p.polled),
                                          cannotSucceed |-> pollCannotSucceed(p)])]
                     results == bubbleVotes(e1, p.votes)
                 IN {LET e2 == [e1 EXCEPT !.consensus = c, !.vmPreference = Preference(c)]
                     IN IF Finalized(c) THEN e2 ELSE repoll(e2) :
                     c \in RecordPoll(e1.consensus, results)}

\* deliver, the options of an oracle block: those that verify are added.
RECURSIVE deliverOptions(_, _, _)
deliverOptions(e, options, i) ==
    IF i > Len(options) THEN e
    ELSE LET blk == options[i]
             e1 == parsed(e, blk)
         IN deliverOptions(IF blk \in e.invalid
                           THEN [e1 EXCEPT !.verifyFailed = @ \cup {blk}]
                           ELSE [e1 EXCEPT !.consensus = Add(@, blk)],
                           options, i + 1)

\* A failed Verify that leaves what is blocked on the block as it is.
verifyFailedSilently(e, blk) == Ret([e EXCEPT !.verifyFailed = @ \cup {blk}], <<>>)

\* deliver when Verify fails: all that is blocked on the block is abandoned.
\* verifyFailed keeps the blocks whose Verify failed.
verifyFailed(e, blk) ==
    Ret([e EXCEPT !.verifyFailed = @ \cup {blk}],
        <<Frame("Blocker.Abandon", blk, Empty, issuer(Empty))>>)

\* deliver; the calls it ends with are Blocker.Fulfill for the block, the
\* loops over the options added and dropped, and repoll.
deliver(e, blk) ==
    IF Issued(e.consensus, blk) THEN Ret(e, <<>>)
    ELSE LET e1 == [e EXCEPT !.pending = @ \ {blk}]
         IN IF blk \in e.invalid
            THEN verifyFailed(e1, blk)
            ELSE LET options == Options(e1, blk)
                     e2 == deliverOptions([e1 EXCEPT !.consensus = Add(@, blk)], options, 1)
                     e3 == pushSample([e2 EXCEPT !.vmPreference = Preference(e2.consensus)], blk)
                     added == SelectSeq(options, LAMBDA o : o \notin e.invalid)
                     dropped == SelectSeq(options, LAMBDA o : o \in e.invalid)
                 IN Ret(e3, <<Frame("Blocker.Fulfill", blk, Empty, issuer(Empty))>>
                            \o FramesOf("deliver.added", added)
                            \o FramesOf("deliver.dropped", dropped)
                            \o <<Frame("repoll", Empty, Empty, issuer(Empty))>>)

\* deliver, one turn of the loop over the options added.
deliverAdded(e, blk) ==
    Ret([pushSample(e, blk) EXCEPT !.pending = @ \ {blk}],
        <<Frame("Blocker.Fulfill", blk, Empty, issuer(Empty))>>)

\* deliver, one turn of the loop over the options dropped.
deliverDropped(e, blk) ==
    Ret([e EXCEPT !.pending = @ \ {blk}],
        <<Frame("Blocker.Abandon", blk, Empty, issuer(Empty))>>)

\* Update of a Blockable that waits for nothing.
Update(e, b) ==
    IF b.kind = "issuer" THEN deliver(e, b.blk)
    ELSE IF b.kind = "voter" THEN {[e |-> x, k |-> <<>>, ret |-> {}] : x \in voterUpdate(e, b)}
    ELSE Ret(e, <<>>)

\* Abandon of one Blockable: an issuer gives its block up, a voter applies
\* its vote, a convincer does not answer.
abandonOne(e, b) ==
    IF b.kind = "issuer"
    THEN Ret([e EXCEPT !.pending = @ \ {b.blk}],
             <<Frame("Blocker.Abandon", b.blk, Empty, issuer(Empty))>>)
    ELSE IF b.kind = "voter" THEN Ret(e, <<Frame("Update", Empty, Empty, b)>>)
    ELSE Ret(e, <<>>)

\* Blocker.Register of a Blockable that waits for dep (Empty: for nothing).
blockerRegister(e, b, dep) ==
    IF dep = Empty THEN Ret(e, <<Frame("Update", Empty, Empty, b)>>)
    ELSE Ret([e EXCEPT !.blocked = Store(@, dep,
                  Append(IF dep \in DOMAIN e.blocked THEN e.blocked[dep] ELSE <<>>, b))],
             <<>>)

\* Blocker.Fulfill
blockerFulfill(e, id) ==
    IF id \notin DOMAIN e.blocked THEN Ret(e, <<>>)
    ELSE Ret([e EXCEPT !.blocked = Delete(@, id)],
             [i \in 1..Len(e.blocked[id]) |-> Frame("Update", Empty, Empty, e.blocked[id][i])])

\* Blocker.Abandon
blockerAbandon(e, id) ==
    IF id \notin DOMAIN e.blocked THEN Ret(e, <<>>)
    ELSE Ret([e EXCEPT !.blocked = Delete(@, id)],
             [i \in 1..Len(e.blocked[id]) |-> Frame("Abandon", Empty, Empty, e.blocked[id][i])])

\* insert
insert(e, blk) ==
    LET e1 == [e EXCEPT !.pending = @ \cup {blk},
                        !.blkReqs = requestsRemoveAny(@, blk)]
    IN blockerRegister(e1, issuer(blk),
                       IF ~Issued(e1.consensus, parent[blk]) THEN parent[blk] ELSE Empty)

\* insertFrom returns added: the call record keeps the value and whether the
\* block insertFrom was called with is issued at that moment.
insertFromReturns(e, added) ==
    RetAdded([e EXCEPT !.insertFromCall =
                 [blk |-> Empty, returned |-> TRUE, added |-> added,
                  issued |-> Issued(e.consensus, e.insertFromCall.blk)]],
             <<>>, added)

\* insertFrom, from the test of its loop: the value returned, or insert and
\* then the rest of the turn for the parent.
insertFromLoop(e, vdr, blk) ==
    IF Issued(e.consensus, blk) \/ blk \in e.pending
    THEN insertFromReturns(e, Issued(e.consensus, blk))
    ELSE {[r EXCEPT !.k = @ \o <<Frame("insertFrom.parent", parent[blk], vdr, issuer(Empty))>>] :
          r \in insert(e, blk)}

\* insertFrom, the turn of the loop after insert: blk is the parent.
insertFromParent(e, vdr, blk) ==
    IF ~Fetched(e.consensus.status[blk])
    THEN insertFromReturns(sendRequest(e, vdr, blk), FALSE)
    ELSE insertFromLoop(e, vdr, blk)

\* insertFrom(vdr, blk)
insertFrom(e, vdr, blk) ==
    insertFromLoop([e EXCEPT !.insertFromCall =
                       [blk |-> blk, returned |-> FALSE, added |-> FALSE, issued |-> FALSE]],
                   vdr, blk)

\* insertAll, from the test of its loop.
insertAll(e, blk) ==
    IF Fetched(e.consensus.status[blk]) /\ ~Issued(e.consensus, blk) /\ blk \notin e.pending
    THEN {[r EXCEPT !.k = @ \o <<Frame("insertAll", parent[blk], Empty, issuer(Empty))>>] :
          r \in insert(e, blk)}
    ELSE IF Issued(e.consensus, blk) THEN RetAdded(e, <<>>, TRUE)
    ELSE IF requestsContains(e.blkReqs, blk) THEN RetAdded(e, <<>>, FALSE)
    ELSE RetAdded(e, <<Frame("Blocker.Abandon", blk, Empty, issuer(Empty))>>, FALSE)

fetchOrInsert(e, vdr, blkID) ==
    IF ~Fetched(e.consensus.status[blkID])
    THEN RetAdded(sendRequest(e, vdr, blkID), <<>>, FALSE)
    ELSE insertFrom(e, vdr, blkID)

\* finishBootstrapping that takes the last accepted block for a plain block.
finishBootstrappingPlain(e) ==
    Ret([e EXCEPT !.consensus = [Initialize(GenesisID) EXCEPT !.status = e.consensus.status],
                  !.vmPreference = GenesisID], <<>>)

\* finishBootstrapping: consensus starts from the last accepted block.
finishBootstrapping(e) ==
    LET lastAcceptedID == GenesisID
        e1 == [e EXCEPT !.consensus = [Initialize(lastAcceptedID) EXCEPT !.status = e.consensus.status]]
        options == Options(e1, lastAcceptedID)
        RECURSIVE parsedEach(_, _)
        parsedEach(x, i) == IF i > Len(options) THEN x ELSE parsedEach(parsed(x, options[i]), i + 1)
    IN IF options # <<>> THEN Ret(parsedEach(e1, 1), FramesOf("deliver", options))
       ELSE Ret([e1 EXCEPT !.vmPreference = lastAcceptedID], <<>>)

\* A GetFailed that forgets the request and abandons nothing.
GetFailedKeepsBlocked(e, vdr, requestID) ==
    IF ~e.bootstrapped THEN Ret(e, <<>>)
    ELSE Ret([e EXCEPT !.blkReqs = Delete(@, <<vdr, requestID>>)], <<>>)

\* The engine handlers; each drops its message before bootstrapping is done.
GetFailed(e, vdr, requestID) ==
    IF ~e.bootstrapped THEN Ret(e, <<>>)
    ELSE IF <<vdr, requestID>> \notin DOMAIN e.blkReqs THEN Ret(e, <<>>)
    ELSE blockerAbandon([e EXCEPT !.blkReqs = Delete(@, <<vdr, requestID>>)],
                        e.blkReqs[<<vdr, requestID>>])

\* Put; parses tells whether VM.ParseBlock accepts the bytes, which are
\* those of blk.
Put(e, vdr, requestID, blk, parses) ==
    IF ~e.bootstrapped THEN Ret(e, <<>>)
    ELSE IF ~parses THEN GetFailed(e, vdr, requestID)
    ELSE insertFrom(parsed(e, blk), vdr, blk)

\* PullQuery; the convincer is registered once fetchOrInsert has returned.
PullQuery(e, vdr, requestID, blkID) ==
    IF ~e.bootstrapped THEN Ret(e, <<>>)
    ELSE {[r EXCEPT !.k = @ \o <<Frame("Register", blkID, vdr, convincer(vdr, requestID))>>] :
          r \in fetchOrInsert(e, vdr, blkID)}

\* PushQuery; PullQuery is called once insertFrom has returned.
PushQuery(e, vdr, requestID, blk, parses) ==
    IF ~e.bootstrapped \/ ~parses THEN Ret(e, <<>>)
    ELSE {[r EXCEPT !.k = @ \o <<Frame("PullQuery", blk, vdr, convincer(vdr, requestID))>>] :
          r \in insertFrom(parsed(e, blk), vdr, blk)}

QueryFailed(e, vdr, requestID) ==
    IF ~e.bootstrapped THEN Ret(e, <<>>)
    ELSE blockerRegister(e, voter(vdr, requestID, Empty), Empty)

\* A Chits that is not dropped while the chain bootstraps.
ChitsWhileBootstrapping(e, vdr, requestID, votes) ==
    IF Cardinality(votes) # 1 THEN QueryFailed(e, vdr, requestID)
    ELSE LET response == CHOOSE x \in votes : TRUE
         IN {[r EXCEPT !.k = @ \o <<Frame("Register", response, vdr, voter(vdr, requestID, response))>>] :
             r \in fetchOrInsert(e, vdr, response)}

\* Chits; votes is the set of ids the message carries. The voter is
\* registered once fetchOrInsert has returned.
Chits(e, vdr, requestID, votes) ==
    IF ~e.bootstrapped THEN Ret(e, <<>>)
    ELSE IF Cardinality(votes) # 1 THEN QueryFailed(e, vdr, requestID)
    ELSE LET response == CHOOSE x \in votes : TRUE
         IN {[r EXCEPT !.k = @ \o <<Frame("Register", response, vdr, voter(vdr, requestID, response))>>] :
             r \in fetchOrInsert(e, vdr, response)}

\* Notify(PendingTxs); blk is the block VM.BuildBlock returns.
Notify(e, blk) ==
    IF ~e.bootstrapped THEN Ret(e, <<>>)
    ELSE insertAll(parsed(e, blk), blk)

\* The call of the frame f is made in the engine e; added is the value the
\* last insertFrom, insertAll or fetchOrInsert returned.
call(e, f, added) ==
    CASE f.op = "deliver" -> deliver(e, f.blk)
      [] f.op = "deliver.added" -> deliverAdded(e, f.blk)
      [] f.op = "deliver.dropped" -> deliverDropped(e, f.blk)
      [] f.op = "repoll" -> Ret(repoll(e), <<>>)
      [] f.op = "Blocker.Fulfill" -> blockerFulfill(e, f.blk)
      [] f.op = "Blocker.Abandon" -> blockerAbandon(e, f.blk)
      [] f.op = "Update" -> Update(e, f.b)
      [] f.op = "Abandon" -> abandonOne(e, f.b)
      [] f.op = "Register" -> blockerRegister(e, f.b, IF added THEN Empty ELSE f.blk)
      [] f.op = "insertFrom.parent" -> insertFromParent(e, f.vdr, f.blk)
      [] f.op = "insertAll" -> insertAll(e, f.blk)
      [] f.op = "PullQuery" -> PullQuery(e, f.vdr, f.b.requestID, f.blk)

\* The handler runs to its end: the calls are made last made first served,
\* as the calls of the code nest.
RECURSIVE run(_)
run(C) ==
    IF \A c \in C : c.k = <<>> THEN {c.e : c \in C}
    ELSE run(UNION {IF c.k = <<>> THEN {c}
                    ELSE {[e |-> r.e, k |-> r.k \o Tail(c.k),
                           added |-> IF r.ret = {} THEN c.added ELSE TRUE \in r.ret] :
                          r \in call(c.e, Head(c.k), c.added)} :
                    c \in C})

\* The states a handler can leave, from what its first call yields.
handle(R) == run({[e |-> r.e, k |-> r.k, added |-> TRUE \in r.ret] : r \in R})

\* --------------------------------------------- specification of consensus
\* The block universes: every block's parent is the genesis or a block of
\* a lower id.
Universes == {f \in [BlockIDs -> IDs] : \A b \in BlockIDs : f[b] < b}

InitConsensus ==
    /\ handler = <<>>
    /\ index = <<>>
    /\ multiput = <<>>
    /\ params = DefaultParameters
    /\ rounds = <<>>
    /\ boot = <<>>
    /\ sender = <<>>
    /\ parent \in Universes
    /\ ts = Initialize(GenesisID)
    /\ mgr = ManagerInitialize
    /\ bs = BootstrapperInitialize(GenesisID)
    /\ engine = TransitiveInitialize({}, Empty)

\* The engine adds a block once, after its parent has been issued.
AddBlock(blk) ==
    /\ ~Issued(ts, blk)
    /\ blk \notin ts.issued
    /\ parent[blk] = GenesisID \/ Issued(ts, parent[blk])
    /\ ts' = Add(ts, blk)
    /\ UNCHANGED <<handler, index, multiput, params, rounds, boot, sender, parent, mgr, bs, engine>>

Poll(votes) ==
    /\ ts.polls < MaxPolls
    /\ ts' \in RecordPoll(ts, votes)
    /\ UNCHANGED <<handler, index, multiput, params, rounds, boot, sender, parent, mgr, bs, engine>>

NextConsensus ==
    \/ \E blk \in BlockIDs : AddBlock(blk)
    \/ \E votes \in VoteBags : Poll(votes)

vars == <<handler, index, multiput, params, rounds, boot, sender, parent, ts, mgr, bs, engine>>

SpecConsensus == InitConsensus /\ [][NextConsensus]_vars

\* ------------------------------------- specification of the timeout Manager
\* The sender registers a request it has not used before.
SendRequest(v, c, r, register, ok, duration) ==
    /\ createRequestID(v, c, r) \notin mgr.registered \cup mgr.benched
    /\ mgr.now + duration <= MaxTime
    /\ mgr' = Register(mgr, v, c, r, register, ok, duration)
    /\ UNCHANGED <<handler, index, multiput, params, rounds, boot, sender, parent, ts, bs, engine>>

\* The response to a request that was sent arrives: the router cancels the
\* timeout and hands the Put to the engine.
Response(v, c, r) ==
    LET id == createRequestID(v, c, r)
    IN /\ id \in mgr.registered
       /\ id \notin mgr.responded
       /\ mgr' = [Cancel(mgr, v, c, r) EXCEPT !.responded = @ \cup {id},
                                             !.observed[id] = Append(@, "Put")]
       /\ UNCHANGED <<handler, index, multiput, params, rounds, boot, sender, parent, ts, bs, engine>>

\* The sender reports a failure it has synthesized itself.
LocalFailure(v, c, r) ==
    /\ createRequestID(v, c, r) \in DOMAIN mgr.timeouts
    /\ mgr' = RegisterFailure(mgr, v, c, r)
    /\ UNCHANGED <<handler, index, multiput, params, rounds, boot, sender, parent, ts, bs, engine>>

\* The clock advances.
Tick ==
    /\ mgr.now < MaxTime
    /\ mgr' = [mgr EXCEPT !.now = @ + 1]
    /\ UNCHANGED <<handler, index, multiput, params, rounds, boot, sender, parent, ts, bs, engine>>

\* The timer, holding its lock, takes an entry that is due out of the map;
\* its callback is run once the lock is released.
TimerTakes(id) ==
    /\ id \in DOMAIN mgr.timeouts
    /\ mgr.timeouts[id] <= mgr.now
    /\ mgr' = [tmRemove(mgr, id) EXCEPT !.handlers = @ \cup {id}]
    /\ UNCHANGED <<handler, index, multiput, params, rounds, boot, sender, parent, ts, bs, engine>>

\* The timer's dispatcher runs a callback it has taken.
TimerRuns(id) ==
    /\ id \in mgr.handlers
    /\ mgr' = [storedCallback(mgr, id) EXCEPT !.handlers = @ \ {id}]
    /\ UNCHANGED <<handler, index, multiput, params, rounds, boot, sender, parent, ts, bs, engine>>

\* The executor runs the next function of its queue.
ExecutorRuns ==
    /\ mgr.executor # <<>>
    /\ mgr' = [timeout(mgr, Head(mgr.executor)) EXCEPT !.executor = Tail(@)]
    /\ UNCHANGED <<handler, index, multiput, params, rounds, boot, sender, parent, ts, bs, engine>>

InitTimeout ==
    /\ handler = <<>>
    /\ index = <<>>
    /\ multiput = <<>>
    /\ params = DefaultParameters
    /\ rounds = <<>>
    /\ boot = <<>>
    /\ sender = <<>>
    /\ parent = [b \in BlockIDs |-> GenesisID]
    /\ ts = Initialize(GenesisID)
    /\ mgr = ManagerInitialize
    /\ bs = BootstrapperInitialize(GenesisID)
    /\ engine = TransitiveInitialize({}, Empty)

NextTimeout ==
    \/ \E v \in Validators, c \in ChainIDs, r \in RequestIDs, register, ok \in BOOLEAN,
          duration \in 1..MaxDuration : SendRequest(v, c, r, register, ok, duration)
    \/ \E v \in Validators, c \in ChainIDs, r \in RequestIDs : Response(v, c, r)
    \/ \E v \in Validators, c \in ChainIDs, r \in RequestIDs : LocalFailure(v, c, r)
    \/ Tick
    \/ \E id \in Fingerprints : TimerTakes(id)
    \/ \E id \in Fingerprints : TimerRuns(id)
    \/ ExecutorRuns

\* Manager.Dispatch keeps the timer and the executor running, and time passes.
FairTimeout ==
    /\ WF_vars(Tick)
    /\ WF_vars(\E id \in Fingerprints : TimerTakes(id))
    /\ WF_vars(\E id \in Fingerprints : TimerRuns(id))
    /\ WF_vars(ExecutorRuns)

SpecTimeout == InitTimeout /\ [][NextTimeout]_vars /\ FairTimeout

\* ------------------------------------------------------ claims on consensus
RECURSIVE Height(_)
Height(b) == IF b = GenesisID THEN 0 ELSE 1 + Height(parent[b])

\* a is a proper ancestor of b.
RECURSIVE IsAncestor(_, _)
IsAncestor(a, b) == b # GenesisID /\ (parent[b] = a \/ IsAncestor(a, parent[b]))

AcceptedBlocks == {b \in BlockIDs : ts.status[b] = "Accepted"}

\* C1: no two distinct blocks of the same height are both Accepted, and the
\* Accepted blocks form one chain from the root given to Initialize: the
\* parent of every Accepted block is the root or Accepted.
C1_OneAcceptedChain ==
    /\ \A a, b \in AcceptedBlocks : a # b => Height(a) # Height(b)
    /\ \A b \in AcceptedBlocks : parent[b] = GenesisID \/ parent[b] \in AcceptedBlocks

\* Two blocks are Accepted while a block of the height of one of them was
\* issued and lost.
C1_Witness ==
    /\ Cardinality(AcceptedBlocks) >= 2
    /\ \E a \in AcceptedBlocks, x \in ts.issued : x # a /\ Height(x) = Height(a)

\* C2: Accept events come in chain order: the parent of the i-th accepted
\* block is the head at that moment, that is the root for the first and the
\* previously accepted block for the others; the head is the last of them.
C2_AcceptInChainOrder ==
    /\ \A i \in 1..Len(ts.accepted) :
          parent[ts.accepted[i]] = IF i = 1 THEN GenesisID ELSE ts.accepted[i - 1]
    /\ ts.head = IF ts.accepted = <<>> THEN GenesisID ELSE ts.accepted[Len(ts.accepted)]

\* One RecordPoll call accepted two blocks.
C2_Witness == ts.polls = 1 /\ Len(ts.accepted) >= 2

\* x is a sibling of b or descends from one.
Conflicts(x, b) ==
    /\ x # b
    /\ \E s \in BlockIDs : /\ s # b
                           /\ parent[s] = parent[b]
                           /\ (s = x \/ IsAncestor(s, x))

\* C3: once b is Accepted, no sibling of b and no descendant of a sibling is
\* in the tree, and each of them that was issued has been rejected exactly
\* once.
C3_ConflictsRejectedOnce ==
    \A b \in AcceptedBlocks : \A x \in BlockIDs :
        Conflicts(x, b) =>
            /\ x \notin DOMAIN ts.blocks
            /\ x \in ts.issued => ts.status[x] = "Rejected" /\ ts.rejected[x] = 1

\* Accepting b removed a sibling of b from the tree together with a child of
\* that sibling.
C3_Witness ==
    \E b \in AcceptedBlocks : \E s, x \in ts.removed :
        /\ parent[s] = parent[b]
        /\ parent[x] = s
        /\ ts.rejected[x] = 1

\* The leaf reached from id by following the Snowball preference of each
\* node that has children.
RECURSIVE PreferredLeaf(_)
PreferredLeaf(id) ==
    IF ts.blocks[id].children = {} THEN id
    ELSE PreferredLeaf(sbPreference(ts.blocks[id].sb))

\* C5: preference() is the leaf reached from the head along preferred
\* children.
C5_PreferenceIsPreferredLeaf == Preference(ts) = PreferredLeaf(ts.head)

\* ------------------------------------------- claims on the timeout Manager
\* C7: every registered request resolves exactly once: its callback never
\* fires twice, never after a Cancel has returned, never before its deadline,
\* and the request ends either removed by Cancel or with its callback fired
\* once.
C7_CancelOrFireOnce ==
    /\ [](\A id \in Fingerprints : mgr.fired[id] <= 1)
    /\ [](mgr.firedAfterCancel = {})
    /\ [](mgr.firedEarly = {})
    /\ \A id \in Fingerprints :
          [](id \in mgr.registered => <>(mgr.removedBy[id] = "Cancel" \/ mgr.fired[id] = 1))

\* C8: of the Put and the GetFailed of one Get the engine observes one only;
\* after the Put, no GetFailed.
C8_ExactlyOneOfPutOrGetFailed ==
    \A id \in Fingerprints :
        /\ Len(mgr.observed[id]) <= 1
        /\ mgr.observed[id] # <<>> /\ mgr.observed[id][1] = "Put" => Len(mgr.observed[id]) = 1

\* --------------------------------------- specification of the bootstrapper
\* The beacons agreed on a set of accepted ids.
InitBootstrap ==
    /\ handler = <<>>
    /\ index = <<>>
    /\ multiput = <<>>
    /\ params = DefaultParameters
    /\ rounds = <<>>
    /\ boot = <<>>
    /\ sender = <<>>
    /\ parent \in Universes
    /\ ts = Initialize(GenesisID)
    /\ mgr = ManagerInitialize
    /\ \E lastAccepted \in IDs, acceptedContainerIDs \in (SUBSET BlockIDs) \ {{}} :
          bs = ForceAccepted(BootstrapperInitialize(lastAccepted), acceptedContainerIDs)
    /\ engine = TransitiveInitialize({}, Empty)

\* A validator answers GetAncestors(blkID) with n containers.
HandleMultiPut(blkID, n) ==
    /\ blkID \in bs.outstanding
    /\ bs' = MultiPut(bs, blkID, Ancestors(blkID, n))
    /\ UNCHANGED <<handler, index, multiput, params, rounds, boot, sender, parent, ts, mgr, engine>>

\* A GetAncestors request fails and is sent to another validator.
GetAncestorsFailed(blkID) ==
    /\ blkID \in bs.outstanding
    /\ bs.attempts < MaxAttempts
    /\ bs' = [bs EXCEPT !.attempts = @ + 1]
    /\ UNCHANGED <<handler, index, multiput, params, rounds, boot, sender, parent, ts, mgr, engine>>

\* A runnable job is executed.
ExecuteJob(blk) ==
    /\ blk \in bs.jobs
    /\ runnable(bs, blk)
    /\ bs' = executeJob(bs, blk)
    /\ UNCHANGED <<handler, index, multiput, params, rounds, boot, sender, parent, ts, mgr, engine>>

\* The queue has drained and every accepted id is known: bootstrapping ends.
FinishBootstrap ==
    /\ ~bs.finished
    /\ bs.jobs = {}
    /\ bs.outstanding = {}
    /\ bs.accepted \subseteq bs.vmAccepted
    /\ bs' = [bs EXCEPT !.finished = TRUE]
    /\ UNCHANGED <<handler, index, multiput, params, rounds, boot, sender, parent, ts, mgr, engine>>

NextBootstrap ==
    \/ \E blkID \in BlockIDs, n \in 1..NumBlocks : HandleMultiPut(blkID, n)
    \/ \E blkID \in BlockIDs : GetAncestorsFailed(blkID)
    \/ \E blk \in BlockIDs : ExecuteJob(blk)
    \/ FinishBootstrap

SpecBootstrap == InitBootstrap /\ [][NextBootstrap]_vars

\* ---------------------------------------------- claims on the bootstrapper
\* C10: jobs are executed in dependency order: the parent of every block the
\* bootstrap accepts was known to the VM at the start or was accepted
\* earlier, and no block is accepted twice.
C10_JobsInDependencyOrder ==
    \A i \in 1..Len(bs.log) :
        /\ parent[bs.log[i]] \in bs.local \cup {bs.log[j] : j \in 1..(i - 1)}
        /\ \A j \in 1..(i - 1) : bs.log[j] # bs.log[i]

\* Bootstrapping toward one accepted id ended after two responses, the
\* first of them truncated, and a chain of three blocks was accepted in order.
C10_Witness ==
    /\ bs.finished
    /\ Cardinality(bs.accepted) = 1
    /\ bs.responses >= 2
    /\ Len(bs.log) >= 3
    /\ parent[bs.log[3]] = bs.log[2] /\ parent[bs.log[2]] = bs.log[1]
    /\ bs.lastAccepted = bs.log[Len(bs.log)]

\* ------------------------------------------- specification of the engine
\* The block trees of the engine: the blocks it is never handed hang off
\* the root.
EngineUniverses == {f \in Universes : \A b \in BlockIDs \ EngineBlockIDs : f[b] = GenesisID}

\* The number of Blockables the Blocker holds.
blockedLen(e) ==
    LET RECURSIVE sum(_)
        sum(S) == IF S = {} THEN 0
                  ELSE LET x == CHOOSE y \in S : TRUE IN Len(e.blocked[x]) + sum(S \ {x})
    IN sum(DOMAIN e.blocked)

\* The engine moves to one of the states the handler can leave, within the
\* bounds; R is what the first call of the handler yields.
EngineStep(R) ==
    /\ engine' \in handle(R)
    /\ engine'.RequestID <= MaxRequestID
    /\ blockedLen(engine') <= MaxBlocked
    /\ UNCHANGED <<handler, index, multiput, params, rounds, boot, sender, parent, ts, mgr, bs>>

InitEngine ==
    /\ handler = <<>>
    /\ index = <<>>
    /\ multiput = <<>>
    /\ params = DefaultParameters
    /\ rounds = <<>>
    /\ boot = <<>>
    /\ sender = <<>>
    /\ parent \in EngineUniverses
    /\ ts = Initialize(GenesisID)
    /\ mgr = ManagerInitialize
    /\ bs = BootstrapperInitialize(GenesisID)
    /\ \E invalid \in {{}} \cup {{b} : b \in EngineBlockIDs},
          oracle \in {Empty} \cup {b \in {GenesisID} \cup EngineBlockIDs : Cardinality(ChildrenOf(b)) >= 2} :
          engine = TransitiveInitialize(invalid, oracle)

\* The bootstrapper is done: it calls finishBootstrapping and marks the
\* chain as bootstrapped.
FinishBootstrapping ==
    /\ ~engine.bootstrapped
    /\ EngineStep({[r EXCEPT !.e.bootstrapped = TRUE] : r \in finishBootstrapping(engine)})

\* The request ids an answer to a query can carry: those of the outstanding
\* polls, and one that is of no poll, as is every other id.
QueryIDs == DOMAIN engine.polls \cup {PeerRequestID}

\* The request ids an answer of vdr to a Get can carry: those of the
\* outstanding requests to vdr, and one that is of no request.
GetIDs(vdr) == {k[2] : k \in {x \in DOMAIN engine.blkReqs : x[1] = vdr}} \cup {PeerRequestID}

\* An inbound message: its op, the validator it is from, its request id, and
\* by op the container (parses: its bytes parse, and are those of blk) or the
\* votes.
Msg(op, vdr, requestID, blk, votes, parses) ==
    [op |-> op, vdr |-> vdr, requestID |-> requestID, blk |-> blk, votes |-> votes, parses |-> parses]

\* The messages the validators can send the engine about the blocks blks.
MsgsOver(blks) ==
    UNION {{Msg("Put", vdr, requestID, blk, {}, TRUE) :
                    requestID \in GetIDs(vdr), blk \in blks}
           \cup {Msg("Put", vdr, requestID, Empty, {}, FALSE) : requestID \in GetIDs(vdr)}
           \cup {Msg("GetFailed", vdr, requestID, Empty, {}, FALSE) : requestID \in GetIDs(vdr)}
           \cup {Msg("PullQuery", vdr, PeerRequestID, blk, {}, FALSE) : blk \in blks}
           \cup {Msg("PushQuery", vdr, PeerRequestID, blk, {}, TRUE) : blk \in blks}
           \cup {Msg("PushQuery", vdr, PeerRequestID, Empty, {}, FALSE)}
           \cup {Msg("Chits", vdr, requestID, Empty, votes, FALSE) :
                    requestID \in QueryIDs,
                    votes \in {{}} \cup {{id} : id \in {GenesisID} \cup blks}}
           \cup {Msg("QueryFailed", vdr, requestID, Empty, {}, FALSE) : requestID \in QueryIDs} :
           vdr \in Validators}

\* The messages the validators can send the engine.
ConsensusMsgs == MsgsOver(EngineBlockIDs)

\* Handler.handleConsensusMsg: the message goes to the engine method of its op.
engineCall(e, msg) ==
    CASE msg.op = "GetFailed" -> GetFailed(e, msg.vdr, msg.requestID)
      [] msg.op = "Put" -> Put(e, msg.vdr, msg.requestID, msg.blk, msg.parses)
      [] msg.op = "PushQuery" -> PushQuery(e, msg.vdr, msg.requestID, msg.blk, msg.parses)
      [] msg.op = "PullQuery" -> PullQuery(e, msg.vdr, msg.requestID, msg.blk)
      [] msg.op = "QueryFailed" -> QueryFailed(e, msg.vdr, msg.requestID)
      [] msg.op = "Chits" -> Chits(e, msg.vdr, msg.requestID, msg.votes)

\* A message of a validator is handled.
handleConsensusMsg(msg) == EngineStep(engineCall(engine, msg))

\* Handler.handleMsg, a Notify of the VM: it has built a block it did not
\* hold before.
handleMsg(blk) ==
    /\ ~Fetched(engine.consensus.status[blk])
    /\ EngineStep(Notify(engine, blk))

NextEngine ==
    \/ FinishBootstrapping
    \/ \E msg \in ConsensusMsgs : handleConsensusMsg(msg)
    \/ \E blk \in EngineBlockIDs : handleMsg(blk)

SpecEngine == InitEngine /\ [][NextEngine]_vars

\* ------------------------------ specification of the engine with an oracle
\* The oracle block and its two options.
OracleBlockIDs == {1, 2, 3}

\* Block 1 is built on the last accepted block, blocks 2 and 3 on block 1.
OracleUniverse == [b \in BlockIDs |-> IF b \in {2, 3} THEN 1 ELSE GenesisID]

\* Block 1 is an OracleBlock that the engine does not hold yet.
InitOracle ==
    /\ handler = <<>>
    /\ index = <<>>
    /\ multiput = <<>>
    /\ params = DefaultParameters
    /\ rounds = <<>>
    /\ boot = <<>>
    /\ sender = <<>>
    /\ parent = OracleUniverse
    /\ ts = Initialize(GenesisID)
    /\ mgr = ManagerInitialize
    /\ bs = BootstrapperInitialize(GenesisID)
    /\ \E invalid \in {{}} \cup {{b} : b \in OracleBlockIDs} :
          engine = TransitiveInitialize(invalid, 1)

\* The last request id the engine with the oracle uses: one Get, and the
\* queries for the oracle block and its two options.
MaxOracleRequestID == 4

\* A message of a validator is handled by the engine with the oracle.
handleOracleMsg(msg) ==
    /\ engine' \in handle(engineCall(engine, msg))
    /\ engine'.RequestID <= MaxOracleRequestID
    /\ blockedLen(engine') <= MaxBlocked
    /\ UNCHANGED <<handler, index, multiput, params, rounds, boot, sender, parent, ts, mgr, bs>>

\* The messages about the oracle block and its options that fetch and
\* insert blocks; the queries of the engine are not answered.
OracleMsgs ==
    {msg \in MsgsOver(OracleBlockIDs) : msg.op \in {"Put", "GetFailed", "PullQuery", "PushQuery"}}

NextOracle ==
    \/ FinishBootstrapping
    \/ \E msg \in OracleMsgs : handleOracleMsg(msg)

SpecOracle == InitOracle /\ [][NextOracle]_vars

\* ---------------------------------------------------- claims on the engine
StatusRank(s) == IF s = "Unknown" THEN 0 ELSE IF s = "Processing" THEN 1 ELSE 2

\* How many times consensus called Accept on the block.
AcceptCalls(c, b) == Cardinality({i \in 1..Len(c.accepted) : c.accepted[i] = b})

\* C4: over every engine event the status of each block only moves forward
\* in Unknown < Processing < (Accepted | Rejected) and a decided status
\* stays; Accept and Reject are called at most once per block in total,
\* and never on the block consensus was initialized with.
C4_StatusMonotonic ==
    [][\A b \in IDs :
          /\ StatusRank(engine.consensus.status[b]) <= StatusRank(engine'.consensus.status[b])
          /\ Decided(engine.consensus.status[b]) =>
                engine'.consensus.status[b] = engine.consensus.status[b]
          /\ AcceptCalls(engine'.consensus, b) + engine'.consensus.rejected[b]
                <= IF b = GenesisID THEN 0 ELSE 1]_vars

\* The engine has had one block accepted and another one rejected.
C4_Witness ==
    \E a, r \in EngineBlockIDs :
        /\ engine.consensus.status[a] = "Accepted"
        /\ engine.consensus.status[r] = "Rejected"
        /\ engine.consensus.rejected[r] = 1

\* C6: no two outstanding Get requests are for the same container.
C6_OneGetPerContainer ==
    \A k1, k2 \in DOMAIN engine.blkReqs :
        engine.blkReqs[k1] = engine.blkReqs[k2] => k1 = k2

\* A Get for a container is outstanding at one validator while a message of
\* another validator waits for the same container.
C6_Witness ==
    \E k \in DOMAIN engine.blkReqs :
        /\ engine.blkReqs[k] \in DOMAIN engine.blocked
        /\ \E i \in 1..Len(engine.blocked[engine.blkReqs[k]]) :
              LET b == engine.blocked[engine.blkReqs[k]][i]
              IN b.kind # "issuer" /\ b.vdr # k[1]

\* C9: RecordPoll is called at most once per poll, and when it is called at
\* least Alpha responses had been applied to the poll or the poll could no
\* longer succeed.
C9_RecordPollOncePerPoll ==
    \A i \in 1..Len(engine.recordPolls) :
        /\ engine.recordPolls[i].responses >= Alpha \/ engine.recordPolls[i].cannotSucceed
        /\ \A j \in 1..Len(engine.recordPolls) :
              engine.recordPolls[j].requestID = engine.recordPolls[i].requestID => i = j

\* A poll ended before all of its validators had answered, and another one
\* ended after it.
C9_Witness ==
    /\ Len(engine.recordPolls) >= 2
    /\ engine.recordPolls[1].responses < K

\* ------------------------------------------- two proposals under the head
\* Number of RecordPoll calls on the two proposals.
MaxRounds == 5

\* The parameter set of the two-proposal scenarios.
ScenarioParameters == [K |-> 5, Alpha |-> 4, BetaVirtuous |-> 3, BetaRogue |-> 3]

\* The two proposals, children of the last accepted block.
Proposals == {1, 2}

\* The bags of K votes over the proposals and the last block, which is never
\* added.
RoundVotes == {b \in BagsUpTo(K) : BagLen(b) = K /\ BagIDs(b) \subseteq Proposals \cup {NumBlocks}}

\* The id with an alpha majority in the bag, Empty when there is none.
Majority(votes) == IF ModeFreq(votes) >= Alpha THEN ModeID(votes) ELSE Empty

InitRounds ==
    /\ handler = <<>>
    /\ index = <<>>
    /\ multiput = <<>>
    /\ params = ScenarioParameters
    /\ rounds = <<>>
    /\ boot = <<>>
    /\ sender = <<>>
    /\ parent = [b \in BlockIDs |-> GenesisID]
    /\ ts = Initialize(GenesisID)
    /\ mgr = ManagerInitialize
    /\ bs = BootstrapperInitialize(GenesisID)
    /\ engine = TransitiveInitialize({}, Empty)

\* Add of one of the two proposals.
AddProposal(blk) ==
    /\ ~Issued(ts, blk)
    /\ ts' = Add(ts, blk)
    /\ UNCHANGED <<handler, index, multiput, params, rounds, boot, sender, parent, mgr, bs, engine>>

\* RecordPoll once both proposals are in the tree.
RecordRound(votes) ==
    /\ Proposals \subseteq ts.issued
    /\ Len(rounds) < MaxRounds
    /\ ts' \in RecordPoll(ts, votes)
    /\ rounds' = Append(rounds, Majority(votes))
    /\ UNCHANGED <<handler, index, multiput, params, boot, sender, parent, mgr, bs, engine>>

NextRounds ==
    \/ \E blk \in Proposals : AddProposal(blk)
    \/ \E votes \in RoundVotes : RecordRound(votes)

SpecRounds == InitRounds /\ [][NextRounds]_vars

\* The last n rounds up to round m all had an alpha majority for id.
StreakAt(id, m, n) == m >= n /\ \A i \in (m - n + 1)..m : rounds[i] = id

\* Round m completes the first run of BetaRogue consecutive majorities for
\* one proposal, and that proposal is id.
FirstStreakAt(id, m) ==
    /\ StreakAt(id, m, BetaRogue)
    /\ \A i \in 1..(m - 1) : \A o \in Proposals : ~StreakAt(o, i, BetaRogue)

\* C11: with two proposals under the head, a proposal is accepted exactly
\* when the rounds so far hold BetaRogue consecutive alpha majorities for it
\* (and none earlier for the other): not before the last of these rounds,
\* and at that round; its sibling is then rejected, it is the preference
\* and the instance is finalized.
C11_AcceptedAtBetaConsecutivePolls ==
    \A a \in Proposals :
        /\ ts.status[a] = "Accepted" <=> \E m \in 1..Len(rounds) : FirstStreakAt(a, m)
        /\ ts.status[a] = "Accepted" =>
               /\ \A b \in Proposals \ {a} : ts.status[b] = "Rejected" /\ ts.rejected[b] = 1
               /\ Preference(ts) = a
               /\ Finalized(ts)

\* Three rounds for the first proposal, which is accepted at the third.
C11_Witness ==
    /\ rounds = <<1, 1, 1>>
    /\ ts.status[1] = "Accepted"
    /\ ts.status[2] = "Rejected"
    /\ ts.polls = BetaRogue

\* The consecutive-successful-polls counter the Snowball instance of the head
\* holds for the child id.
Confidence(id) ==
    LET sb == ts.blocks[ts.head].sb
    IN IF sb.sfPreference = id THEN sb.confidence ELSE 0

\* Two rounds for b, then n rounds for a.
Flip(a, b, n) == [i \in 1..(2 + n) |-> IF i <= 2 THEN b ELSE a]

RejectedByAdd == {b \in ts.issued : ts.status[b] = "Rejected" /\ b \notin ts.removed}

\* C13: a step that issues a block whose parent is not in the tree rejects
\* the block exactly once and changes nothing else: the block is not
\* inserted, the head, the preference and every node stay as they were.
\* As the block is not in the tree, the same holds for every block added
\* later below it.
C13_MissingParentRejectedOnce ==
    [][\A blk \in BlockIDs :
          (blk \in ts'.issued \ ts.issued /\ parent[blk] \notin DOMAIN ts.blocks) =>
              /\ ts.rejected[blk] = 0
              /\ ts' = [ts EXCEPT !.issued = @ \cup {blk},
                                  !.status[blk] = "Rejected",
                                  !.rejected[blk] = 1]
              /\ blk \notin DOMAIN ts'.blocks
              /\ ts'.head = ts.head /\ Preference(ts') = Preference(ts)
              /\ ts'.blocks = ts.blocks]_vars

\* A block and its child were both rejected by Add.
C13_Witness ==
    \E b \in RejectedByAdd : \E c \in RejectedByAdd :
        /\ parent[c] = b
        /\ ts.rejected[b] = 1 /\ ts.rejected[c] = 1
        /\ {b, c} \cap DOMAIN ts.blocks = {}

\* ------------------------------------------------- claims on the tree
\* The ids the tree holds a node for.
Tree == DOMAIN ts.blocks

\* C14: the tree holds exactly the head and the undecided blocks: every
\* other node is a Processing block that descends from the head, no node is
\* a Rejected block or an Accepted block other than the head, and every
\* issued block still Processing has a node. Hence Finalized() holds
\* exactly when no undecided block remains.
C14_TreeIsHeadAndUndecided ==
    /\ ts.head \in Tree
    /\ ts.status[ts.head] = "Accepted"
    /\ \A x \in Tree \ {ts.head} : ts.status[x] = "Processing" /\ IsAncestor(ts.head, x)
    /\ \A b \in ts.issued : ts.status[b] = "Processing" => b \in Tree
    /\ Finalized(ts) <=> \A b \in ts.issued : Decided(ts.status[b])

\* A block was accepted and a conflicting subtree pruned while another
\* block is still undecided below the new head.
C14_Witness ==
    /\ ts.head # GenesisID
    /\ ts.removed # {}
    /\ ~Finalized(ts)
    /\ \E x \in Tree : ts.status[x] = "Processing"

\* ------------------------------------------- claims on ineffective polls
\* The vote bags that name only ids without a node in the tree and ids of
\* decided blocks.
UnknownOrDecidedVotes ==
    {v \in VoteBags : \A id \in BagIDs(v) : id \notin Tree \/ Decided(ts.status[id])}

\* C15 as stated: RecordPoll of a bag that names only unknown or decided
\* ids changes nothing: the tree, the head, the preference, the Snowball
\* counters and the shouldFalter flags stay as they were.
C15_IneffectivePollIsNoOp ==
    \A v \in UnknownOrDecidedVotes : RecordPoll(ts, v) = {[ts EXCEPT !.polls = @ + 1]}

\* C15 amended: such a RecordPoll leaves the tree, the head, the preference
\* and the Snowball counters as they were, and sets shouldFalter on the head.
C15_IneffectivePollFaltersHead ==
    \A v \in UnknownOrDecidedVotes :
        RecordPoll(ts, v) = {[ts EXCEPT !.polls = @ + 1, !.blocks[ts.head].shouldFalter = TRUE]}

\* After a successful poll that did not finalize the head, a bag of K votes
\* for an unknown id and for the decided head: the poll sets the flag of
\* the head, which was clear.
C15_Witness ==
    /\ ts.polls > 0
    /\ ~ts.blocks[ts.head].shouldFalter
    /\ ts.blocks[ts.head].sb # NoSb
    /\ ts.blocks[ts.head].sb.confidence > 0
    /\ \E v \in UnknownOrDecidedVotes :
           /\ BagLen(v) = K
           /\ v[ts.head] > 0
           /\ \E id \in BagIDs(v) : id \notin Tree /\ ~Decided(ts.status[id])
           /\ \E c \in RecordPoll(ts, v) : c.blocks[c.head].shouldFalter /\ c.tail = ts.tail

\* ------------------------------------------------ claims on insertFrom
\* C16: the value the last insertFrom returned is true exactly when the
\* block it was called with was issued at the moment it returned.
C16_InsertFromReturnsIssued ==
    engine.insertFromCall.returned =>
        (engine.insertFromCall.added <=> engine.insertFromCall.issued)

\* ------------------------------------------------ common.Bootstrapper
\* Number of beacons the Config can name.
NumBeacons == 3
\* The largest stake weight of a beacon.
MaxWeight == 2
\* Number of container ids the beacons report.
NumContainers == 2

\* The container ids of the frontiers.
ContainerIDs == 1..NumContainers

\* The Configs: Beacons gives every beacon its weight, Alpha is the
\* threshold of the accepted bag.
Configs ==
    {[Beacons |-> w, Alpha |-> a] :
        w \in UNION {[1..n -> 1..MaxWeight] : n \in 0..NumBeacons},
        a \in 1..(NumBeacons * MaxWeight)}

\* Bag.Add(ids...): one more of every id.
BagAdd(bag, ids) == [i \in IDs |-> IF i \in ids THEN bag[i] + 1 ELSE bag[i]]

\* Bag.Threshold(): the ids whose count reached the threshold.
BagThreshold(bag, threshold) == {i \in IDs : bag[i] >= threshold}

\* Bootstrapper.Initialize. requests records the calls of Sender
\* (GetAcceptedFrontier, GetAccepted) with their arguments, forceAccepted the
\* arguments of the calls of Bootstrapable.ForceAccepted, received the ids of
\* the AcceptedFrontier messages of pending beacons, and replies, for every
\* beacon whose Accepted message was applied, the ids it carried.
CommonInitialize(config) ==
    [Beacons |-> config.Beacons,
     Alpha |-> config.Alpha,
     pendingAcceptedFrontier |-> DOMAIN config.Beacons,
     acceptedFrontier |-> {},
     pendingAccepted |-> DOMAIN config.Beacons,
     accepted |-> EmptyBag,
     RequestID |-> 0,
     requests |-> <<>>,
     forceAccepted |-> <<>>,
     received |-> {},
     replies |-> [x \in {} |-> {}]]

InitAccepted ==
    /\ handler = <<>>
    /\ index = <<>>
    /\ multiput = <<>>
    /\ params = DefaultParameters
    /\ rounds = <<>>
    /\ boot \in {CommonInitialize(config) : config \in Configs}
    /\ sender = <<>>
    /\ parent = [b \in BlockIDs |-> GenesisID]
    /\ ts = Initialize(GenesisID)
    /\ mgr = ManagerInitialize
    /\ bs = BootstrapperInitialize(GenesisID)
    /\ engine = TransitiveInitialize({}, Empty)

Startup ==
    /\ boot.RequestID = 0
    /\ boot.forceAccepted = <<>>
    /\ boot' = IF boot.pendingAcceptedFrontier = {}
               THEN [boot EXCEPT !.forceAccepted = Append(@, {})]
               ELSE [boot EXCEPT !.RequestID = @ + 1,
                                 !.requests = Append(@,
                                     [op |-> "GetAcceptedFrontier",
                                      vdrs |-> boot.pendingAcceptedFrontier,
                                      containerIDs |-> {}])]
    /\ UNCHANGED <<handler, index, multiput, params, rounds, sender, parent, ts, mgr, bs, engine>>

\* An AcceptedFrontier that does not look at who is pending.
AcceptedFrontierFromAnyone(validatorID, containerIDs) ==
    /\ boot.requests # <<>>
    /\ boot' = LET b1 == [boot EXCEPT !.pendingAcceptedFrontier = @ \ {validatorID},
                                      !.acceptedFrontier = @ \cup containerIDs,
                                      !.received =
                                          IF validatorID \in boot.pendingAcceptedFrontier
                                          THEN @ \cup containerIDs ELSE @]
               IN IF b1.pendingAcceptedFrontier = {}
                  THEN [b1 EXCEPT !.RequestID = @ + 1,
                                  !.requests = Append(@,
                                      [op |-> "GetAccepted", vdrs |-> b1.pendingAccepted,
                                       containerIDs |-> b1.acceptedFrontier])]
                  ELSE b1
    /\ UNCHANGED <<handler, index, multiput, params, rounds, sender, parent, ts, mgr, bs, engine>>

AcceptedFrontier(validatorID, containerIDs) ==
    /\ boot.requests # <<>>
    /\ boot' = IF validatorID \notin boot.pendingAcceptedFrontier THEN boot
               ELSE LET b1 == [boot EXCEPT !.pendingAcceptedFrontier = @ \ {validatorID},
                                           !.acceptedFrontier = @ \cup containerIDs,
                                           !.received = @ \cup containerIDs]
                    IN IF b1.pendingAcceptedFrontier = {}
                       THEN [b1 EXCEPT !.RequestID = @ + 1,
                                       !.requests = Append(@,
                                           [op |-> "GetAccepted", vdrs |-> b1.pendingAccepted,
                                            containerIDs |-> b1.acceptedFrontier])]
                       ELSE b1
    /\ UNCHANGED <<handler, index, multiput, params, rounds, sender, parent, ts, mgr, bs, engine>>

\* An Accepted that hands the accepted ids on after every reply.
AcceptedForcesEveryTime(validatorID, containerIDs) ==
    /\ Len(boot.requests) = 2
    /\ boot' = IF validatorID \notin boot.pendingAccepted THEN boot
               ELSE LET b1 == [boot EXCEPT !.pendingAccepted = @ \ {validatorID},
                                           !.accepted = BagAdd(@, containerIDs),
                                           !.replies = Store(@, validatorID, containerIDs)]
                    IN [b1 EXCEPT !.forceAccepted =
                           Append(@, BagThreshold(b1.accepted, b1.Alpha))]
    /\ UNCHANGED <<handler, index, multiput, params, rounds, sender, parent, ts, mgr, bs, engine>>

Accepted(validatorID, containerIDs) ==
    /\ Len(boot.requests) = 2
    /\ boot' = IF validatorID \notin boot.pendingAccepted THEN boot
               ELSE LET b1 == [boot EXCEPT !.pendingAccepted = @ \ {validatorID},
                                           !.accepted = BagAdd(@, containerIDs),
                                           !.replies = Store(@, validatorID, containerIDs)]
                    IN IF b1.pendingAccepted = {}
                       THEN [b1 EXCEPT !.forceAccepted =
                                Append(@, BagThreshold(b1.accepted, b1.Alpha))]
                       ELSE b1
    /\ UNCHANGED <<handler, index, multiput, params, rounds, sender, parent, ts, mgr, bs, engine>>

\* Accepted (or GetAcceptedFailed) for a message that arrives before
\* GetAccepted was sent: the method looks at pendingAccepted only.
AcceptedBeforeGetAccepted(validatorID, containerIDs) ==
    /\ Len(boot.requests) = 1
    /\ boot' = IF validatorID \notin boot.pendingAccepted THEN boot
               ELSE LET b1 == [boot EXCEPT !.pendingAccepted = @ \ {validatorID},
                                           !.accepted = BagAdd(@, containerIDs),
                                           !.replies = Store(@, validatorID, containerIDs)]
                    IN IF b1.pendingAccepted = {}
                       THEN [b1 EXCEPT !.forceAccepted =
                                Append(@, BagThreshold(b1.accepted, b1.Alpha))]
                       ELSE b1
    /\ UNCHANGED <<handler, index, multiput, params, rounds, sender, parent, ts, mgr, bs, engine>>

\* The beacons answer, or the requests to them fail:
\* GetAcceptedFrontierFailed and GetAcceptedFailed are the answers with no
\* id.
NextAccepted ==
    \/ Startup
    \/ \E vdr \in 1..NumBeacons : \E containerIDs \in (SUBSET ContainerIDs) \ {{}} :
          AcceptedFrontier(vdr, containerIDs)
    \/ \E vdr \in 1..NumBeacons : AcceptedFrontier(vdr, {})
    \/ \E vdr \in 1..NumBeacons : \E containerIDs \in (SUBSET ContainerIDs) \ {{}} :
          Accepted(vdr, containerIDs)
    \/ \E vdr \in 1..NumBeacons : Accepted(vdr, {})

SpecAccepted == InitAccepted /\ [][NextAccepted]_vars

\* The messages of the beacons arrive in any order: an Accepted or a
\* GetAcceptedFailed can precede the end of frontier-gathering.
NextAnyOrder ==
    \/ NextAccepted
    \/ \E vdr \in 1..NumBeacons : \E containerIDs \in SUBSET ContainerIDs :
          AcceptedBeforeGetAccepted(vdr, containerIDs)

SpecAnyOrder == InitAccepted /\ [][NextAnyOrder]_vars

\* Startup is called, and every beacon answers or its request fails, in both
\* phases.
FairAccepted ==
    /\ WF_vars(Startup)
    /\ \A vdr \in 1..NumBeacons :
          /\ WF_vars(\E containerIDs \in SUBSET ContainerIDs : AcceptedFrontier(vdr, containerIDs))
          /\ WF_vars(\E containerIDs \in SUBSET ContainerIDs : Accepted(vdr, containerIDs))

SpecAcceptedLive == InitAccepted /\ [][NextAccepted]_vars /\ FairAccepted

\* The stake weight of the beacons whose Accepted reply carried id.
RECURSIVE WeightOf(_, _)
WeightOf(id, vdrs) ==
    IF vdrs = {} THEN 0
    ELSE LET v == CHOOSE x \in vdrs : TRUE
         IN (IF id \in boot.replies[v] THEN boot.Beacons[v] ELSE 0) + WeightOf(id, vdrs \ {v})

\* The accepted-query phase has ended: every beacon answered or failed.
AcceptedQueryEnded == boot.requests # <<>> /\ boot.forceAccepted # <<>>

\* C17: when the accepted-query phase ends, the set handed to
\* ForceAccepted is exactly the ids for which the beacons that reported
\* them hold a stake weight of at least Alpha together.
C17_AcceptedByStakeWeight ==
    AcceptedQueryEnded =>
        boot.forceAccepted[1] =
            {id \in ContainerIDs : WeightOf(id, DOMAIN boot.replies) >= boot.Alpha}

\* C18: when the accepted-query phase ends with no accepted id although
\* beacons are configured, the empty set is not handed to ForceAccepted.
C18_NoEmptyAcceptedSet ==
    AcceptedQueryEnded => boot.forceAccepted[1] # {}

\* -------------------------------------------------------------- Sender
\* Number of nodes a request can be addressed to, this node included.
NumNodes == 3
\* Number of requests the engine hands to the Sender.
MaxSends == 2

\* The node ids.
NodeIDs == 1..NumNodes

\* The request types, those the failedDueToBench counters are created for.
RequestOps ==
    {"Get", "GetAccepted", "GetAcceptedFrontier", "GetAncestors",
     "PullQuery", "PushQuery", "AppRequest"}

\* Sender.Initialize. NodeID is ctx.NodeID. sent holds what was handed to
\* ExternalSender.Send and registered what was handed to
\* router.RegisterRequest, each as node, request id and request type;
\* inbound counts the messages handed to router.HandleInbound; unreachable
\* counts the calls of RegisterRequestToUnreachableValidator. calls records
\* the requests made, each with the set of benched nodes and the set of
\* nodes the network could send to at that moment.
SenderInitialize ==
    [NodeID |-> 1,
     failedDueToBench |-> [op \in RequestOps |-> 0],
     unreachable |-> 0,
     sent |-> {},
     registered |-> {},
     inbound |-> [m \in {} |-> 0],
     calls |-> <<>>]

\* go s.router.HandleInbound(inMsg), once for every node of the set.
HandleInbound(s, op, nodeIDs, requestID) ==
    LET msgs == {[op |-> op, nodeID |-> n, requestID |-> requestID] : n \in nodeIDs}
    IN [s EXCEPT !.inbound = [m \in DOMAIN s.inbound \cup msgs |->
                                 (IF m \in DOMAIN s.inbound THEN s.inbound[m] ELSE 0)
                                 + (IF m \in msgs THEN 1 ELSE 0)]]

\* s.router.RegisterRequest(nodeID, chainID, requestID, op), once for every
\* node of the set.
RegisterRequest(s, nodeIDs, requestID, op) ==
    [s EXCEPT !.registered = @ \cup
        {[op |-> op, nodeID |-> n, requestID |-> requestID] : n \in nodeIDs}]

\* s.sender.Send(outMsg, nodeIDs, ...)
Send(s, nodeIDs, requestID, op) ==
    [s EXCEPT !.sent = @ \cup
        {[op |-> op, nodeID |-> n, requestID |-> requestID] : n \in nodeIDs}]

SendGetAcceptedFrontier(nodeIDs, benched, sentTo) ==
    LET requestID == Len(sender.calls) + 1
        self == nodeIDs \cap {sender.NodeID}
        s1 == HandleInbound(RegisterRequest(sender, self, requestID, "GetAcceptedFrontier"),
                            "GetAcceptedFrontier", self, requestID)
        rest == nodeIDs \ self
        s2 == RegisterRequest(Send(s1, rest, requestID, "GetAcceptedFrontier"), rest, requestID, "GetAcceptedFrontier")
    IN /\ Len(sender.calls) < MaxSends
       /\ sender' = [s2 EXCEPT !.calls = Append(@, [op |-> "GetAcceptedFrontier", failed |-> "GetAcceptedFrontierFailed",
                                                   nodeIDs |-> nodeIDs, benched |-> benched,
                                                   sentTo |-> sentTo, packs |-> TRUE])]
       /\ UNCHANGED <<handler, index, multiput, params, rounds, boot, parent, ts, mgr, bs, engine>>

SendGetAccepted(nodeIDs, benched, sentTo, packs) ==
    LET requestID == Len(sender.calls) + 1
        self == nodeIDs \cap {sender.NodeID}
        s1 == HandleInbound(RegisterRequest(sender, self, requestID, "GetAccepted"),
                            "GetAccepted", self, requestID)
        rest == nodeIDs \ self
        s2 == IF ~packs THEN HandleInbound(s1, "GetAcceptedFailed", rest, requestID)
               ELSE RegisterRequest(Send(s1, rest, requestID, "GetAccepted"), rest, requestID, "GetAccepted")
    IN /\ Len(sender.calls) < MaxSends
       /\ sender' = [s2 EXCEPT !.calls = Append(@, [op |-> "GetAccepted", failed |-> "GetAcceptedFailed",
                                                   nodeIDs |-> nodeIDs, benched |-> benched,
                                                   sentTo |-> sentTo, packs |-> packs])]
       /\ UNCHANGED <<handler, index, multiput, params, rounds, boot, parent, ts, mgr, bs, engine>>

SendGetAncestors(nodeID, benched, sentTo, packs) ==
    LET requestID == Len(sender.calls) + 1
        s1 == IF nodeID = sender.NodeID
              THEN HandleInbound(sender, "GetAncestorsFailed", {nodeID}, requestID)
              ELSE IF nodeID \in benched
              THEN HandleInbound([sender EXCEPT !.failedDueToBench["GetAncestors"] = @ + 1,
                                                !.unreachable = @ + 1],
                                 "GetAncestorsFailed", {nodeID}, requestID)
              ELSE IF ~packs
              THEN HandleInbound(sender, "GetAncestorsFailed", {nodeID}, requestID)
              ELSE LET sent == Send(sender, {nodeID}, requestID, "GetAncestors")
                   IN IF {nodeID} \cap sentTo = {}
                      THEN HandleInbound([sent EXCEPT !.unreachable = @ + 1],
                                         "GetAncestorsFailed", {nodeID}, requestID)
                      ELSE RegisterRequest(sent, {nodeID}, requestID, "GetAncestors")
    IN /\ Len(sender.calls) < MaxSends
       /\ sender' = [s1 EXCEPT !.calls = Append(@, [op |-> "GetAncestors", failed |-> "GetAncestorsFailed",
                                                   nodeIDs |-> {nodeID}, benched |-> benched,
                                                   sentTo |-> sentTo, packs |-> packs])]
       /\ UNCHANGED <<handler, index, multiput, params, rounds, boot, parent, ts, mgr, bs, engine>>

SendGet(nodeID, benched, sentTo) ==
    LET requestID == Len(sender.calls) + 1
        s1 == IF nodeID = sender.NodeID
              THEN HandleInbound(sender, "GetFailed", {nodeID}, requestID)
              ELSE IF nodeID \in benched
              THEN HandleInbound([sender EXCEPT !.failedDueToBench["Get"] = @ + 1,
                                                !.unreachable = @ + 1],
                                 "GetFailed", {nodeID}, requestID)
              ELSE LET sent == Send(sender, {nodeID}, requestID, "Get")
                   IN IF {nodeID} \cap sentTo = {}
                      THEN HandleInbound([sent EXCEPT !.unreachable = @ + 1],
                                         "GetFailed", {nodeID}, requestID)
                      ELSE RegisterRequest(sent, {nodeID}, requestID, "Get")
    IN /\ Len(sender.calls) < MaxSends
       /\ sender' = [s1 EXCEPT !.calls = Append(@, [op |-> "Get", failed |-> "GetFailed",
                                                   nodeIDs |-> {nodeID}, benched |-> benched,
                                                   sentTo |-> sentTo, packs |-> TRUE])]
       /\ UNCHANGED <<handler, index, multiput, params, rounds, boot, parent, ts, mgr, bs, engine>>

SendPushQuery(nodeIDs, benched, sentTo, packs) ==
    LET requestID == Len(sender.calls) + 1
        self == nodeIDs \cap {sender.NodeID}
        s1 == HandleInbound(RegisterRequest(sender, self, requestID, "PushQuery"),
                            "PushQuery", self, requestID)
        isBenched == (nodeIDs \ self) \cap benched
        rest == (nodeIDs \ self) \ isBenched
        s2 == HandleInbound([s1 EXCEPT !.failedDueToBench["PushQuery"] = @ + Cardinality(isBenched),
                                       !.unreachable = @ + Cardinality(isBenched)],
                            "QueryFailed", isBenched, requestID)
        s3 == IF ~packs THEN HandleInbound(s2, "QueryFailed", rest, requestID)
               ELSE LET sent == Send(s2, rest, requestID, "PushQuery")
                        registered == RegisterRequest(sent, rest \cap sentTo, requestID, "PushQuery")
                    IN HandleInbound([registered EXCEPT !.unreachable = @ + Cardinality(rest \ sentTo)],
                                     "QueryFailed", rest \ sentTo, requestID)
    IN /\ Len(sender.calls) < MaxSends
       /\ sender' = [s3 EXCEPT !.calls = Append(@, [op |-> "PushQuery", failed |-> "QueryFailed",
                                                   nodeIDs |-> nodeIDs, benched |-> benched,
                                                   sentTo |-> sentTo, packs |-> packs])]
       /\ UNCHANGED <<handler, index, multiput, params, rounds, boot, parent, ts, mgr, bs, engine>>

\* A SendPullQuery that registers the request for every node it was handed to
\* the network for.
SendPullQueryRegistersAll(nodeIDs, benched, sentTo) ==
    LET requestID == Len(sender.calls) + 1
        self == nodeIDs \cap {sender.NodeID}
        s1 == HandleInbound(RegisterRequest(sender, self, requestID, "PullQuery"),
                            "PullQuery", self, requestID)
        isBenched == (nodeIDs \ self) \cap benched
        rest == (nodeIDs \ self) \ isBenched
        s2 == HandleInbound([s1 EXCEPT !.failedDueToBench["PullQuery"] = @ + Cardinality(isBenched),
                                       !.unreachable = @ + Cardinality(isBenched)],
                            "QueryFailed", isBenched, requestID)
        s3 == LET sent == Send(s2, rest, requestID, "PullQuery")
                        registered == RegisterRequest(sent, rest, requestID, "PullQuery")
                    IN HandleInbound([registered EXCEPT !.unreachable = @ + Cardinality(rest \ sentTo)],
                                     "QueryFailed", rest \ sentTo, requestID)
    IN /\ Len(sender.calls) < MaxSends
       /\ sender' = [s3 EXCEPT !.calls = Append(@, [op |-> "PullQuery", failed |-> "QueryFailed",
                                                   nodeIDs |-> nodeIDs, benched |-> benched,
                                                   sentTo |-> sentTo, packs |-> TRUE])]
       /\ UNCHANGED <<handler, index, multiput, params, rounds, boot, parent, ts, mgr, bs, engine>>

SendPullQuery(nodeIDs, benched, sentTo) ==
    LET requestID == Len(sender.calls) + 1
        self == nodeIDs \cap {sender.NodeID}
        s1 == HandleInbound(RegisterRequest(sender, self, requestID, "PullQuery"),
                            "PullQuery", self, requestID)
        isBenched == (nodeIDs \ self) \cap benched
        rest == (nodeIDs \ self) \ isBenched
        s2 == HandleInbound([s1 EXCEPT !.failedDueToBench["PullQuery"] = @ + Cardinality(isBenched),
                                       !.unreachable = @ + Cardinality(isBenched)],
                            "QueryFailed", isBenched, requestID)
        s3 == LET sent == Send(s2, rest, requestID, "PullQuery")
                        registered == RegisterRequest(sent, rest \cap sentTo, requestID, "PullQuery")
                    IN HandleInbound([registered EXCEPT !.unreachable = @ + Cardinality(rest \ sentTo)],
                                     "QueryFailed", rest \ sentTo, requestID)
    IN /\ Len(sender.calls) < MaxSends
       /\ sender' = [s3 EXCEPT !.calls = Append(@, [op |-> "PullQuery", failed |-> "QueryFailed",
                                                   nodeIDs |-> nodeIDs, benched |-> benched,
                                                   sentTo |-> sentTo, packs |-> TRUE])]
       /\ UNCHANGED <<handler, index, multiput, params, rounds, boot, parent, ts, mgr, bs, engine>>

SendAppRequest(nodeIDs, benched, sentTo, packs) ==
    LET requestID == Len(sender.calls) + 1
        self == nodeIDs \cap {sender.NodeID}
        s1 == HandleInbound(RegisterRequest(sender, self, requestID, "AppRequest"),
                            "AppRequest", self, requestID)
        isBenched == (nodeIDs \ self) \cap benched
        rest == (nodeIDs \ self) \ isBenched
        s2 == HandleInbound([s1 EXCEPT !.failedDueToBench["AppRequest"] = @ + Cardinality(isBenched),
                                       !.unreachable = @ + Cardinality(isBenched)],
                            "AppRequestFailed", isBenched, requestID)
        s3 == IF ~packs THEN HandleInbound(s2, "AppRequestFailed", rest, requestID)
               ELSE LET sent == Send(s2, rest, requestID, "AppRequest")
                        registered == RegisterRequest(sent, rest \cap sentTo, requestID, "AppRequest")
                    IN HandleInbound([registered EXCEPT !.unreachable = @ + Cardinality(rest \ sentTo)],
                                     "AppRequestFailed", rest \ sentTo, requestID)
    IN /\ Len(sender.calls) < MaxSends
       /\ sender' = [s3 EXCEPT !.calls = Append(@, [op |-> "AppRequest", failed |-> "AppRequestFailed",
                                                   nodeIDs |-> nodeIDs, benched |-> benched,
                                                   sentTo |-> sentTo, packs |-> packs])]
       /\ UNCHANGED <<handler, index, multiput, params, rounds, boot, parent, ts, mgr, bs, engine>>

InitSender ==
    /\ handler = <<>>
    /\ index = <<>>
    /\ multiput = <<>>
    /\ params = DefaultParameters
    /\ rounds = <<>>
    /\ boot = <<>>
    /\ sender = SenderInitialize
    /\ parent = [b \in BlockIDs |-> GenesisID]
    /\ ts = Initialize(GenesisID)
    /\ mgr = ManagerInitialize
    /\ bs = BootstrapperInitialize(GenesisID)
    /\ engine = TransitiveInitialize({}, Empty)

\* The engine makes a request; the benchlist and the network decide which
\* nodes are benched and which can be sent to, the message creator whether
\* the message can be built.
NextSender ==
    \/ \E nodeIDs \in (SUBSET NodeIDs) \ {{}} :
          \E benched \in SUBSET (nodeIDs \ {sender.NodeID}) :
          \E sentTo \in SUBSET (nodeIDs \ {sender.NodeID}) :
              SendGetAcceptedFrontier(nodeIDs, benched, sentTo)
    \/ \E nodeIDs \in (SUBSET NodeIDs) \ {{}} :
          \E benched \in SUBSET (nodeIDs \ {sender.NodeID}) :
          \E sentTo \in SUBSET (nodeIDs \ {sender.NodeID}) :
              \E packs \in BOOLEAN : SendGetAccepted(nodeIDs, benched, sentTo, packs)
    \/ \E nodeID \in NodeIDs :
          \E benched \in SUBSET ({nodeID} \ {sender.NodeID}) :
          \E sentTo \in SUBSET ({nodeID} \ {sender.NodeID}) :
              \E packs \in BOOLEAN : SendGetAncestors(nodeID, benched, sentTo, packs)
    \/ \E nodeID \in NodeIDs :
          \E benched \in SUBSET ({nodeID} \ {sender.NodeID}) :
          \E sentTo \in SUBSET ({nodeID} \ {sender.NodeID}) :
              SendGet(nodeID, benched, sentTo)
    \/ \E nodeIDs \in (SUBSET NodeIDs) \ {{}} :
          \E benched \in SUBSET (nodeIDs \ {sender.NodeID}) :
          \E sentTo \in SUBSET (nodeIDs \ {sender.NodeID}) :
              \E packs \in BOOLEAN : SendPushQuery(nodeIDs, benched, sentTo, packs)
    \/ \E nodeIDs \in (SUBSET NodeIDs) \ {{}} :
          \E benched \in SUBSET (nodeIDs \ {sender.NodeID}) :
          \E sentTo \in SUBSET (nodeIDs \ {sender.NodeID}) :
              SendPullQuery(nodeIDs, benched, sentTo)
    \/ \E nodeIDs \in (SUBSET NodeIDs) \ {{}} :
          \E benched \in SUBSET (nodeIDs \ {sender.NodeID}) :
          \E sentTo \in SUBSET (nodeIDs \ {sender.NodeID}) :
              \E packs \in BOOLEAN : SendAppRequest(nodeIDs, benched, sentTo, packs)

SpecSender == InitSender /\ [][NextSender]_vars

\* ------------------------------------------------ claims on the Sender
\* What the request i of type op carries for the node n.
RequestOf(i, n) == [op |-> sender.calls[i].op, nodeID |-> n, requestID |-> i]

\* The number of local failure messages enqueued for the node n and the
\* request i.
FailuresOf(i, n) ==
    LET m == [op |-> sender.calls[i].failed, nodeID |-> n, requestID |-> i]
    IN IF m \in DOMAIN sender.inbound THEN sender.inbound[m] ELSE 0

\* The number of benched targets of the first n requests that are of type op.
RECURSIVE BenchedTargets(_, _)
BenchedTargets(op, n) ==
    IF n = 0 THEN 0
    ELSE BenchedTargets(op, n - 1)
         + (IF sender.calls[n].op = op
            THEN Cardinality(sender.calls[n].nodeIDs \cap sender.calls[n].benched)
            ELSE 0)

\* C19: for every request of every type and every benched node in its
\* target set, nothing was handed to ExternalSender.Send for the node, one
\* local failure message of the matching type was enqueued, and the
\* failedDueToBench counter of the type counts one for it.
C19_BenchedGetsLocalFailure ==
    /\ \A i \in 1..Len(sender.calls) :
          \A n \in sender.calls[i].nodeIDs \cap sender.calls[i].benched :
              /\ RequestOf(i, n) \notin sender.sent
              /\ FailuresOf(i, n) = 1
    /\ \A op \in RequestOps :
          sender.failedDueToBench[op] = BenchedTargets(op, Len(sender.calls))

\* C20: for every request and every node in its target set, the nodes the
\* message could not be sent to included, the request was registered with
\* the node, the request id and the request type.
C20_TimeoutForEveryTarget ==
    \A i \in 1..Len(sender.calls) :
        \A n \in sender.calls[i].nodeIDs : RequestOf(i, n) \in sender.registered

\* ------------------------------------------------ the router's Handler
\* The most messages the model keeps unprocessed at once.
MaxUnprocessed == 2

\* The kinds of message handleMsg tells apart: the three internal ones and
\* one that goes through handleConsensusMsg.
MsgOps == {"Notify", "GossipRequest", "Timeout", "Put"}

\* The last time the handler's clock shows.
MaxClock == 2
\* The most messages with a deadline that are dropped as expired.
MaxExpired == 2

\* An inbound message: its op and its ExpirationTime, 0 for the zero time.
InboundMsg(op, expirationTime) == [op |-> op, expirationTime |-> expirationTime]

\* No message.
NoMsg == InboundMsg("none", 0)

\* The messages pushed: the internal ones carry no deadline, the one of a
\* peer carries none or one the clock can pass.
InboundMsgs ==
    {InboundMsg(op, 0) : op \in MsgOps}
        \cup {InboundMsg("Put", d) : d \in 1..(MaxClock - 1)}

\* A test that takes the zero time for a deadline.
deadlinePassedOrZero(msg, now) == now > msg.expirationTime

\* The test of Dispatch: the message has a deadline and it has passed.
deadlinePassed(msg, now) == msg.expirationTime # 0 /\ now > msg.expirationTime

\* The engine method handleMsg invokes for a message.
EngineMethod(op) == IF op = "GossipRequest" THEN "Gossip" ELSE op

\* The goroutine that runs Dispatch and the one the router calls
\* StartShutdown from.
Threads == {"Dispatch", "Router"}

\* Handler.Initialize, at the moment Dispatch and the router start: nothing is
\* unprocessed, the chain lock is free, the closed channel is open. [pc] is
\* the position of every thread, [msg] the message Dispatch popped, [running]
\* the engine methods in execution with the thread that invoked each,
\* [shutdowns] the number of calls of engine.Shutdown and [closingAt] the
\* position of Dispatch when closing was set. [clock] is the time of the
\* handler's clock, [expired] the metric of that name and [finished] the
\* number of calls of OnFinishedHandling on the message popped last.
HandlerInitialize ==
    [closing |-> FALSE, closed |-> FALSE, unprocessedMsgs |-> <<>>,
     ctxLock |-> "free", msg |-> NoMsg,
     pc |-> [t \in Threads |-> IF t = "Dispatch" THEN "loop" ELSE "idle"],
     running |-> {}, shutdowns |-> 0, closingAt |-> "none",
     clock |-> 1, expired |-> 0, finished |-> 0]

\* sync.Cond.Signal on unprocessedMsgsCond: Dispatch resumes if it waits.
Signal(pc) ==
    IF pc["Dispatch"] = "wait" THEN [pc EXCEPT !["Dispatch"] = "loop"] ELSE pc

\* The sequence without its element i.
RemoveAt(q, i) == [j \in 1..(Len(q) - 1) |-> IF j < i THEN q[j] ELSE q[j + 1]]

\* The messages with a deadline that are unprocessed or popped and not yet
\* handled.
withDeadline ==
    Len(SelectSeq(handler.unprocessedMsgs, LAMBDA m : m.expirationTime # 0))
        + (IF handler.msg.expirationTime # 0 THEN 1 ELSE 0)

\* Handler.push: the message is stored and the condition signalled, with
\* unprocessedMsgsCond.L held.
push(msg) ==
    /\ Len(handler.unprocessedMsgs) < MaxUnprocessed
    /\ msg.expirationTime # 0 => handler.expired + withDeadline < MaxExpired
    /\ handler' = [handler EXCEPT !.unprocessedMsgs = Append(@, msg),
                                  !.pc = Signal(@)]
    /\ UNCHANGED <<index, multiput, params, rounds, boot, sender, parent, ts, mgr, bs, engine>>

\* Dispatch, the part that holds unprocessedMsgsCond.L: return (to the
\* deferred shutdown) if closing, wait if nothing is unprocessed, pop a
\* message otherwise. Which message Pop returns is the queue's choice.
DispatchNext ==
    /\ handler.pc["Dispatch"] = "loop"
    /\ IF handler.closing
       THEN handler' = [handler EXCEPT !.pc["Dispatch"] = "shutdown"]
       ELSE IF Len(handler.unprocessedMsgs) = 0
       THEN handler' = [handler EXCEPT !.pc["Dispatch"] = "wait"]
       ELSE \E i \in 1..Len(handler.unprocessedMsgs) :
               handler' = [handler EXCEPT !.msg = handler.unprocessedMsgs[i],
                                          !.finished = 0,
                                          !.unprocessedMsgs = RemoveAt(@, i),
                                          !.pc["Dispatch"] = "popped"]
    /\ UNCHANGED <<index, multiput, params, rounds, boot, sender, parent, ts, mgr, bs, engine>>

\* The handler's clock moves on.
clockAdvances ==
    /\ handler.clock < MaxClock
    /\ handler' = [handler EXCEPT !.clock = @ + 1]
    /\ UNCHANGED <<index, multiput, params, rounds, boot, sender, parent, ts, mgr, bs, engine>>

\* Dispatch drops a message whose deadline has passed: the metric is
\* incremented, OnFinishedHandling called, and the loop continues.
DispatchExpired ==
    /\ handler.pc["Dispatch"] = "popped"
    /\ deadlinePassed(handler.msg, handler.clock)
    /\ handler' = [handler EXCEPT !.msg = NoMsg, !.pc["Dispatch"] = "loop",
                                  !.expired = @ + 1, !.finished = @ + 1]
    /\ UNCHANGED <<index, multiput, params, rounds, boot, sender, parent, ts, mgr, bs, engine>>

\* A variant of handleMsg that invokes the engine without the chain lock.
handleMsgCallsUnlocked ==
    /\ handler.pc["Dispatch"] = "popped"
    /\ ~deadlinePassed(handler.msg, handler.clock)
    /\ handler' = [handler EXCEPT
           !.running = @ \cup {[thread |-> "Dispatch", method |-> EngineMethod(handler.msg.op)]},
           !.pc["Dispatch"] = "handleMsg"]
    /\ UNCHANGED <<index, multiput, params, rounds, boot, sender, parent, ts, mgr, bs, engine>>

\* handleMsg takes the chain lock and invokes the engine method of the
\* message.
handleMsgCalls ==
    /\ handler.pc["Dispatch"] = "popped"
    /\ ~deadlinePassed(handler.msg, handler.clock)
    /\ handler.ctxLock = "free"
    /\ handler' = [handler EXCEPT
           !.ctxLock = "Dispatch",
           !.running = @ \cup {[thread |-> "Dispatch", method |-> EngineMethod(handler.msg.op)]},
           !.pc["Dispatch"] = "handleMsg"]
    /\ UNCHANGED <<index, multiput, params, rounds, boot, sender, parent, ts, mgr, bs, engine>>

\* The engine method returns, handleMsg calls OnFinishedHandling and
\* releases the chain lock; on an error Dispatch calls StartShutdown and
\* returns.
handleMsgReturns(err) ==
    /\ handler.pc["Dispatch"] = "handleMsg"
    /\ handler' = [handler EXCEPT
           !.ctxLock = "free",
           !.running = @ \ {[thread |-> "Dispatch", method |-> EngineMethod(handler.msg.op)]},
           !.msg = NoMsg,
           !.finished = @ + 1,
           !.pc["Dispatch"] = IF err THEN "StartShutdown" ELSE "loop"]
    /\ UNCHANGED <<index, multiput, params, rounds, boot, sender, parent, ts, mgr, bs, engine>>

\* The router calls StartShutdown.
RouterStartShutdown ==
    /\ handler.pc["Router"] = "idle"
    /\ handler' = [handler EXCEPT !.pc["Router"] = "StartShutdown"]
    /\ UNCHANGED <<index, multiput, params, rounds, boot, sender, parent, ts, mgr, bs, engine>>

\* StartShutdown, first part: closing is set with unprocessedMsgsCond.L held.
StartShutdown(t) ==
    /\ handler.pc[t] = "StartShutdown"
    /\ handler' = [handler EXCEPT
           !.closing = TRUE,
           !.closingAt = IF handler.closing THEN @ ELSE handler.pc["Dispatch"],
           !.pc[t] = "Signal"]
    /\ UNCHANGED <<index, multiput, params, rounds, boot, sender, parent, ts, mgr, bs, engine>>

\* StartShutdown, second part: the condition is signalled after the lock
\* was released.
StartShutdownSignal(t) ==
    /\ handler.pc[t] = "Signal"
    /\ handler' = [handler EXCEPT !.pc = [Signal(@) EXCEPT ![t] = "Halt"]]
    /\ UNCHANGED <<index, multiput, params, rounds, boot, sender, parent, ts, mgr, bs, engine>>

\* StartShutdown, last part: engine.Halt is invoked; the chain lock is not
\* taken.
StartShutdownHalt(t) ==
    /\ handler.pc[t] = "Halt"
    /\ handler' = [handler EXCEPT
           !.running = @ \cup {[thread |-> t, method |-> "Halt"]},
           !.pc[t] = "inHalt"]
    /\ UNCHANGED <<index, multiput, params, rounds, boot, sender, parent, ts, mgr, bs, engine>>

\* engine.Halt returns and with it StartShutdown: Dispatch goes on to its
\* deferred shutdown, the router is done.
StartShutdownReturns(t) ==
    /\ handler.pc[t] = "inHalt"
    /\ handler' = [handler EXCEPT
           !.running = @ \ {[thread |-> t, method |-> "Halt"]},
           !.pc[t] = IF t = "Dispatch" THEN "shutdown" ELSE "done"]
    /\ UNCHANGED <<index, multiput, params, rounds, boot, sender, parent, ts, mgr, bs, engine>>

\* shutdown takes the chain lock and invokes engine.Shutdown.
shutdown ==
    /\ handler.pc["Dispatch"] = "shutdown"
    /\ handler.ctxLock = "free"
    /\ handler' = [handler EXCEPT
           !.ctxLock = "Dispatch",
           !.running = @ \cup {[thread |-> "Dispatch", method |-> "Shutdown"]},
           !.shutdowns = @ + 1,
           !.pc["Dispatch"] = "inShutdown"]
    /\ UNCHANGED <<index, multiput, params, rounds, boot, sender, parent, ts, mgr, bs, engine>>

\* A variant of shutdownReturns that closes the channel and leaves the
\* engine in Shutdown.
shutdownClosesEarly ==
    /\ handler.pc["Dispatch"] = "inShutdown"
    /\ handler' = [handler EXCEPT !.closed = TRUE, !.pc["Dispatch"] = "close"]
    /\ UNCHANGED <<index, multiput, params, rounds, boot, sender, parent, ts, mgr, bs, engine>>

\* engine.Shutdown returns.
shutdownReturns ==
    /\ handler.pc["Dispatch"] = "inShutdown"
    /\ handler' = [handler EXCEPT
           !.running = @ \ {[thread |-> "Dispatch", method |-> "Shutdown"]},
           !.pc["Dispatch"] = "close"]
    /\ UNCHANGED <<index, multiput, params, rounds, boot, sender, parent, ts, mgr, bs, engine>>

\* shutdown closes the closed channel; the deferred Unlock releases the
\* chain lock as shutdown returns.
shutdownCloses ==
    /\ handler.pc["Dispatch"] = "close"
    /\ handler' = [handler EXCEPT !.closed = TRUE, !.ctxLock = "free",
                                  !.pc["Dispatch"] = "done"]
    /\ UNCHANGED <<index, multiput, params, rounds, boot, sender, parent, ts, mgr, bs, engine>>

InitHandler ==
    /\ handler = HandlerInitialize
    /\ index = <<>>
    /\ multiput = <<>>
    /\ params = DefaultParameters
    /\ rounds = <<>>
    /\ boot = <<>>
    /\ sender = <<>>
    /\ parent = [b \in BlockIDs |-> GenesisID]
    /\ ts = Initialize(GenesisID)
    /\ mgr = ManagerInitialize
    /\ bs = BootstrapperInitialize(GenesisID)
    /\ engine = TransitiveInitialize({}, Empty)

NextHandler ==
    \/ \E msg \in InboundMsgs : push(msg)
    \/ clockAdvances
    \/ DispatchNext
    \/ DispatchExpired
    \/ handleMsgCalls
    \/ \E err \in BOOLEAN : handleMsgReturns(err)
    \/ RouterStartShutdown
    \/ \E t \in Threads : StartShutdown(t)
    \/ \E t \in Threads : StartShutdownSignal(t)
    \/ \E t \in Threads : StartShutdownHalt(t)
    \/ \E t \in Threads : StartShutdownReturns(t)
    \/ shutdown
    \/ shutdownReturns
    \/ shutdownCloses

SpecHandler == InitHandler /\ [][NextHandler]_vars

\* The goroutines are scheduled and every engine method returns: each step
\* of Dispatch and of a StartShutdown in progress is taken if it stays
\* possible. Nothing obliges the router to call StartShutdown or a peer to
\* send a message.
FairHandler ==
    /\ WF_vars(DispatchNext)
    /\ WF_vars(DispatchExpired \/ handleMsgCalls)
    /\ WF_vars(\E err \in BOOLEAN : handleMsgReturns(err))
    /\ \A t \in Threads :
          WF_vars(StartShutdown(t) \/ StartShutdownSignal(t)
                  \/ StartShutdownHalt(t) \/ StartShutdownReturns(t))
    /\ WF_vars(shutdown \/ shutdownReturns \/ shutdownCloses)

SpecHandlerLive == InitHandler /\ [][NextHandler]_vars /\ FairHandler

\* ------------------------------------------------ claims on the Handler
\* C21 (as stated): every engine method the handler invokes, Halt included,
\* runs while the chain lock is held by the thread that invoked it, and no
\* two engine methods run at the same time.
C21_EngineMethodsUnderChainLock ==
    /\ \A r \in handler.running : handler.ctxLock = r.thread
    /\ Cardinality(handler.running) <= 1

\* C21 (amended): every engine method the handler invokes except Halt runs
\* while the chain lock is held by the thread that invoked it, and no two of
\* them run at the same time; Halt is invoked without the chain lock.
C21_EngineMethodsButHaltUnderChainLock ==
    /\ \A r \in handler.running : r.method # "Halt" => handler.ctxLock = r.thread
    /\ Cardinality({r \in handler.running : r.method # "Halt"}) <= 1

\* The router's Halt runs while Dispatch is inside an engine method it
\* invoked under the chain lock.
C21_Witness ==
    /\ [thread |-> "Router", method |-> "Halt"] \in handler.running
    /\ \E r \in handler.running : r.thread = "Dispatch" /\ r.method \in {"Put", "Notify"}
    /\ handler.ctxLock = "Dispatch"

\* C22: once closing is set by StartShutdown, called by the router or by
\* Dispatch after an engine error, no message leaves the unprocessed
\* messages; engine.Shutdown is invoked at most once and under the chain
\* lock; the closed channel is closed only after the one Shutdown returned;
\* and the channel is eventually closed, whatever Dispatch was doing when
\* closing was set.
C22_ShutdownOnceThenClosed ==
    /\ [][handler.closing =>
            Len(handler'.unprocessedMsgs) >= Len(handler.unprocessedMsgs)]_vars
    /\ [](/\ handler.shutdowns <= 1
          /\ [thread |-> "Dispatch", method |-> "Shutdown"] \in handler.running
                => handler.ctxLock = "Dispatch"
          /\ handler.closed =>
                /\ handler.shutdowns = 1
                /\ [thread |-> "Dispatch", method |-> "Shutdown"] \notin handler.running)
    /\ (handler.closing ~> handler.closed)

\* Dispatch waited on the empty queue when the router set closing; the
\* channel is closed and a message pushed since is still unprocessed.
C22_Witness ==
    /\ handler.closed
    /\ handler.closingAt = "wait"
    /\ handler.shutdowns = 1
    /\ Len(handler.unprocessedMsgs) > 0

\* ------------------------------------------------ Transitive.GetAncestors
\* The blocks the VM stores: a chain, block b on top of block b - 1; the
\* parent of the first one is a block of status Unknown.
NumStored == 3

\* network.DefaultMaxMessageSize, scaled down.
DefaultMaxMessageSize == 20

\* common.MaxContainersPerMultiPut, scaled down.
MaxContainersPerMultiPut == 2

\* wrappers.IntLen: the bytes of the length that precedes each container.
IntLen == 4

\* Max containers size in a MultiPut message.
maxContainersLen == (4 * DefaultMaxMessageSize) \div 5

StoredIDs == 1..NumStored

\* The lengths blk.Bytes() can have: small ones, the ones around what fits
\* next to one length prefix, and one a message can still carry.
BytesLens ==
    {1, IntLen - 1, maxContainersLen - IntLen - 1, maxContainersLen - IntLen,
     maxContainersLen}

\* blk.Parent(): the stored blocks form one chain.
ParentOf(blk) == blk - 1

\* The container of a block: the block it parses to and the length of its
\* bytes.
Container(bytes, blk) == [blk |-> blk, bytes |-> bytes[blk]]

\* A loop that appends the requested block again instead of its parent.
fetchAncestorsRepeatsBlock(bytes, blk, ancestorsBytes, ancestorsBytesLen, numFetched, inTime) ==
    IF numFetched < MaxContainersPerMultiPut
    THEN Append(ancestorsBytes, ancestorsBytes[1])
    ELSE ancestorsBytes

\* The loop of GetAncestors: blk is the block added last, numFetched the
\* loop counter; inTime is the number of iterations that start before
\* MaxTimeFetchingAncestors has passed.
RECURSIVE fetchAncestors(_, _, _, _, _, _)
fetchAncestors(bytes, blk, ancestorsBytes, ancestorsBytesLen, numFetched, inTime) ==
    IF ~(numFetched < MaxContainersPerMultiPut /\ numFetched <= inTime)
    THEN ancestorsBytes
    ELSE LET p == ParentOf(blk)
         IN IF p \notin DOMAIN bytes THEN ancestorsBytes
            ELSE LET newLen == IntLen + ancestorsBytesLen + bytes[p]
                 IN IF newLen < maxContainersLen
                    THEN fetchAncestors(bytes, p, Append(ancestorsBytes, Container(bytes, p)),
                                        newLen, numFetched + 1, inTime)
                    ELSE ancestorsBytes

\* Transitive.GetAncestors: the requested block first, then its ancestors;
\* the MultiPut is handed to the Sender. A request for a block the VM does
\* not have is dropped. requested is the id of the request the last MultiPut
\* answered.
GetAncestors(blkID, inTime) ==
    /\ multiput' =
          IF blkID \notin DOMAIN multiput.bytes THEN multiput
          ELSE [multiput EXCEPT !.requested = blkID,
                                !.sent =
                   fetchAncestors(multiput.bytes, blkID, <<Container(multiput.bytes, blkID)>>,
                                  multiput.bytes[blkID] + IntLen, 1, inTime)]
    /\ UNCHANGED <<handler, index, params, rounds, boot, sender, parent, ts, mgr, bs, engine>>

InitAncestors ==
    /\ handler = <<>>
    /\ index = <<>>
    /\ multiput \in {[bytes |-> b, requested |-> Empty, sent |-> <<>>] : b \in [StoredIDs -> BytesLens]}
    /\ params = DefaultParameters
    /\ rounds = <<>>
    /\ boot = <<>>
    /\ sender = <<>>
    /\ parent = [b \in BlockIDs |-> GenesisID]
    /\ ts = Initialize(GenesisID)
    /\ mgr = ManagerInitialize
    /\ bs = BootstrapperInitialize(GenesisID)
    /\ engine = TransitiveInitialize({}, Empty)

NextAncestors ==
    \E blkID \in 0..NumStored, inTime \in 0..MaxContainersPerMultiPut :
        GetAncestors(blkID, inTime)

SpecAncestors == InitAncestors /\ [][NextAncestors]_vars

\* The bytes the containers of a MultiPut take, each with its length prefix.
RECURSIVE containersLen(_)
containersLen(containers) ==
    IF containers = <<>> THEN 0
    ELSE Head(containers).bytes + IntLen + containersLen(Tail(containers))

\* C23: every MultiPut reply holds at most MaxContainersPerMultiPut
\* containers, and its containers with their length prefixes take less than
\* maxContainersLen bytes, whatever the lengths of the stored blocks are.
C23_MultiPutWithinBounds ==
    /\ Len(multiput.sent) <= MaxContainersPerMultiPut
    /\ containersLen(multiput.sent) < maxContainersLen

\* ------------------------------------------------ claims on deliver
\* C24: a block whose Verify failed in deliver is not in consensus, not
\* pending, and no query was sent for it; nothing is left blocked on its
\* id; and no descendant of it is in consensus or queried.
C24_VerifyFailureDropsBlockAndDescendants ==
    \A b \in engine.verifyFailed :
        /\ ~Issued(engine.consensus, b)
        /\ b \notin engine.pending
        /\ b \notin engine.queried
        /\ b \notin DOMAIN engine.blocked
        /\ \A d \in EngineBlockIDs :
              b \in Lineage(d) =>
                 /\ ~Issued(engine.consensus, d)
                 /\ d \notin engine.queried

\* Verify failed for a block whose child the VM holds: the child was
\* inserted and waited for the block.
C24_Witness ==
    \E b \in engine.verifyFailed :
        \E d \in EngineBlockIDs :
            parent[d] = b /\ Fetched(engine.consensus.status[d])

\* ------------------------------------------------ claims on GetFailed
\* The issuers that wait for the block id in the engine e.
IssuersBlockedOn(e, id) ==
    IF id \notin DOMAIN e.blocked THEN {}
    ELSE {e.blocked[id][i].blk :
             i \in {j \in 1..Len(e.blocked[id]) : e.blocked[id][j].kind = "issuer"}}

\* C30: once bootstrapped, GetFailed(vdr, requestID) for an outstanding Get
\* removes the request from blkReqs and abandons all that is blocked on its
\* block id: nothing stays blocked on the id and the blocks whose issuance
\* waited for it leave pending; for a request that is not outstanding
\* GetFailed leaves the engine as it is; and a Put whose bytes do not parse
\* does what GetFailed does.
C30_GetFailedAbandonsOutstanding ==
    engine.bootstrapped =>
        \A vdr \in Validators, requestID \in 0..MaxRequestID :
            LET k == <<vdr, requestID>>
                after == handle(GetFailed(engine, vdr, requestID))
            IN /\ handle(Put(engine, vdr, requestID, Empty, FALSE)) = after
               /\ k \notin DOMAIN engine.blkReqs => after = {engine}
               /\ k \in DOMAIN engine.blkReqs =>
                     \A e \in after :
                         /\ k \notin DOMAIN e.blkReqs
                         /\ engine.blkReqs[k] \notin DOMAIN e.blocked
                         /\ IssuersBlockedOn(engine, engine.blkReqs[k]) \cap e.pending = {}

\* A Get is outstanding for a block the issuance of another one waits for,
\* and GetFailed for it takes that one out of pending.
C30_Witness ==
    /\ engine.bootstrapped
    /\ \E k \in DOMAIN engine.blkReqs :
          /\ IssuersBlockedOn(engine, engine.blkReqs[k]) # {}
          /\ IssuersBlockedOn(engine, engine.blkReqs[k]) \subseteq engine.pending
          /\ \E e \in handle(GetFailed(engine, k[1], k[2])) :
                e.pending = engine.pending \ IssuersBlockedOn(engine, engine.blkReqs[k])

\* ------------------------------------------------ the indexer's index
\* The goroutines that call the index.
NumCallers == 2

\* The most containers the index accepts.
MaxAccepted == 2

Callers == 1..NumCallers

\* Every method of the index as the operations on i.lock it makes, in order.
\* lastAcceptedIndex takes the read lock for itself.
lastAcceptedIndex == <<"RLock", "RUnlock">>

getContainerByIndex == lastAcceptedIndex

GetContainerByIndex == <<"RLock">> \o getContainerByIndex \o <<"RUnlock">>

\* The lock is taken when numToFetch is in range.
GetContainerRange == <<"RLock">> \o lastAcceptedIndex \o <<"RUnlock">>

GetIndex == <<"RLock", "RUnlock">>

\* "exists" is the return of errNoneAccepted when nothing was accepted.
GetLastAccepted == lastAcceptedIndex \o <<"exists">> \o GetContainerByIndex

Accept == <<"Lock", "Unlock">>

\* The methods of Index a goroutine can call.
IndexMethods ==
    [Accept |-> Accept, GetContainerByIndex |-> GetContainerByIndex,
     GetContainerRange |-> GetContainerRange, GetLastAccepted |-> GetLastAccepted,
     GetIndex |-> GetIndex]

\* newIndex on an empty database. readers counts the read locks every
\* goroutine holds, writer is the goroutine that called Lock (0: none),
\* todo the lock operations the call of every goroutine has still to make.
newIndex ==
    [nextAcceptedIndex |-> 0,
     readers |-> [t \in Callers |-> 0],
     writer |-> 0,
     todo |-> [t \in Callers |-> <<>>]]

\* A goroutine calls a method of the index.
Call(t, m) ==
    /\ index.todo[t] = <<>>
    /\ m = "Accept" => index.nextAcceptedIndex < MaxAccepted
    /\ index' = [index EXCEPT !.todo[t] = IndexMethods[m]]
    /\ UNCHANGED <<handler, multiput, params, rounds, boot, sender, parent, ts, mgr, bs, engine>>

\* sync.RWMutex.RLock returns once no goroutine holds or has called Lock.
RLock(t) ==
    /\ index.todo[t] # <<>> /\ Head(index.todo[t]) = "RLock"
    /\ index.writer = 0
    /\ index' = [index EXCEPT !.readers[t] = @ + 1, !.todo[t] = Tail(@)]
    /\ UNCHANGED <<handler, multiput, params, rounds, boot, sender, parent, ts, mgr, bs, engine>>

\* sync.RWMutex.RUnlock; GetLastAccepted returns after it when
\* lastAcceptedIndex found nothing accepted.
RUnlock(t) ==
    /\ index.todo[t] # <<>> /\ Head(index.todo[t]) = "RUnlock"
    /\ LET rest == Tail(index.todo[t])
       IN index' = [index EXCEPT
              !.readers[t] = @ - 1,
              !.todo[t] = IF rest # <<>> /\ Head(rest) = "exists"
                          THEN IF index.nextAcceptedIndex = 0 THEN <<>> ELSE Tail(rest)
                          ELSE rest]
    /\ UNCHANGED <<handler, multiput, params, rounds, boot, sender, parent, ts, mgr, bs, engine>>

\* sync.RWMutex.Lock, first part: no other goroutine is in Lock; from now on
\* RLock blocks.
Lock(t) ==
    /\ index.todo[t] # <<>> /\ Head(index.todo[t]) = "Lock"
    /\ index.writer = 0
    /\ index' = [index EXCEPT !.writer = t, !.todo[t] = <<"Lock.wait">> \o Tail(@)]
    /\ UNCHANGED <<handler, multiput, params, rounds, boot, sender, parent, ts, mgr, bs, engine>>

\* sync.RWMutex.Lock, second part: it returns once the readers have left.
LockReturns(t) ==
    /\ index.todo[t] # <<>> /\ Head(index.todo[t]) = "Lock.wait"
    /\ \A r \in Callers : index.readers[r] = 0
    /\ index' = [index EXCEPT !.todo[t] = Tail(@)]
    /\ UNCHANGED <<handler, multiput, params, rounds, boot, sender, parent, ts, mgr, bs, engine>>

\* Accept with the write lock held: the container is stored under
\* nextAcceptedIndex, the index incremented; the deferred Unlock.
Unlock(t) ==
    /\ index.todo[t] # <<>> /\ Head(index.todo[t]) = "Unlock"
    /\ index' = [index EXCEPT !.nextAcceptedIndex = @ + 1, !.writer = 0,
                              !.todo[t] = Tail(@)]
    /\ UNCHANGED <<handler, multiput, params, rounds, boot, sender, parent, ts, mgr, bs, engine>>

InitIndex ==
    /\ handler = <<>>
    /\ index = newIndex
    /\ multiput = <<>>
    /\ params = DefaultParameters
    /\ rounds = <<>>
    /\ boot = <<>>
    /\ sender = <<>>
    /\ parent = [b \in BlockIDs |-> GenesisID]
    /\ ts = Initialize(GenesisID)
    /\ mgr = ManagerInitialize
    /\ bs = BootstrapperInitialize(GenesisID)
    /\ engine = TransitiveInitialize({}, Empty)

NextIndex ==
    \/ \E t \in Callers, m \in DOMAIN IndexMethods : Call(t, m)
    \/ \E t \in Callers : RLock(t)
    \/ \E t \in Callers : RUnlock(t)
    \/ \E t \in Callers : Lock(t)
    \/ \E t \in Callers : LockReturns(t)
    \/ \E t \in Callers : Unlock(t)

SpecIndex == InitIndex /\ [][NextIndex]_vars

\* Every goroutine is scheduled, and a lock operation that can return again
\* and again does return. Nothing obliges a goroutine to call the index.
FairIndex ==
    \A t \in Callers :
        SF_vars(RLock(t) \/ RUnlock(t) \/ Lock(t) \/ LockReturns(t) \/ Unlock(t))

SpecIndexLive == InitIndex /\ [][NextIndex]_vars /\ FairIndex

\* ------------------------------------------------ claims on the index
\* C25: with any interleaving of concurrent calls of Accept,
\* GetContainerByIndex, GetContainerRange, GetLastAccepted and GetIndex on
\* one index, every call eventually returns.
C25_EveryCallReturns ==
    \A t \in Callers : (index.todo[t] # <<>>) ~> (index.todo[t] = <<>>)

\* ------------------------------------------------ claims on the two phases
\* The GetAccepted requests sent so far.
GetAcceptedSent == SelectSeq(boot.requests, LAMBDA r : r.op = "GetAccepted")

\* C26: once Startup has asked the beacons for their frontiers, GetAccepted
\* is sent at most once, and it has been sent exactly when no beacon is
\* pending for its frontier any more; it went to every beacon that was
\* pending for its accepted ids and carried the union of the frontiers
\* applied; and a step that takes no beacon out of a pending set changes
\* nothing.
C26_GetAcceptedOnceWithFrontierUnion ==
    /\ [](boot.requests # <<>> =>
            /\ Len(GetAcceptedSent) <= 1
            /\ Len(GetAcceptedSent) = 1 <=> boot.pendingAcceptedFrontier = {}
            /\ Len(GetAcceptedSent) = 1 =>
                  /\ GetAcceptedSent[1].vdrs = boot.pendingAccepted \cup DOMAIN boot.replies
                  /\ GetAcceptedSent[1].containerIDs = boot.received)
    /\ [][(/\ boot.requests # <<>>
           /\ boot'.pendingAcceptedFrontier = boot.pendingAcceptedFrontier
           /\ boot'.pendingAccepted = boot.pendingAccepted) => boot' = boot]_vars

\* GetAccepted was sent to all the beacons with all the ids, and the
\* beacons have answered it since.
C26_Witness ==
    /\ Len(GetAcceptedSent) = 1
    /\ GetAcceptedSent[1].containerIDs = ContainerIDs
    /\ GetAcceptedSent[1].vdrs = 1..NumBeacons
    /\ boot.pendingAccepted = {}

\* C27: when Startup is called and every beacon answers or fails in both
\* phases, ForceAccepted is called, and it is never called twice.
C27_ForceAcceptedExactlyOnce ==
    /\ [](Len(boot.forceAccepted) <= 1)
    /\ <>(Len(boot.forceAccepted) = 1)

\* ForceAccepted was called once, with an accepted id, after every request
\* of the first phase and one of the second had failed.
C27_Witness ==
    /\ Len(boot.forceAccepted) = 1
    /\ boot.forceAccepted[1] # {}
    /\ boot.pendingAcceptedFrontier = {} /\ boot.received = {}
    /\ \E v \in DOMAIN boot.replies : boot.replies[v] = {}

\* -------------------------------------------- claims on polls below Alpha
\* The votes of a bag that reach the children of some node: the votes for
\* the undecided blocks of the tree. Every such vote is below the head, so
\* the children of the head collect all of them and no node collects more.
ProcessingVotes(v) ==
    BagLen([id \in IDs |-> IF id \in Tree /\ ~Decided(ts.status[id]) THEN v[id] ELSE 0])

\* The vote bags in which no node's children collect Alpha votes; the empty
\* bag is one of them.
BelowAlphaVotes == {v \in VoteBags : ProcessingVotes(v) < Alpha}

\* C28: RecordPoll of the empty bag, or of a bag in which no node's children
\* collect Alpha votes, accepts and rejects nothing and leaves the tree, the
\* head, the preference and every Snowball counter as they were; all it
\* does is set shouldFalter on the head.
C28_PollBelowAlphaOnlyFaltersHead ==
    \A v \in BelowAlphaVotes :
        \A c \in RecordPoll(ts, v) :
            /\ c.status = ts.status
            /\ DOMAIN c.blocks = Tree
            /\ c.head = ts.head
            /\ c.tail = ts.tail
            /\ \A b \in Tree : c.blocks[b].sb = ts.blocks[b].sb
            /\ \A b \in Tree \ {ts.head} : c.blocks[b] = ts.blocks[b]
            /\ c.blocks[ts.head] = [ts.blocks[ts.head] EXCEPT !.shouldFalter = TRUE]

\* Two blocks compete below the head, whose flag is clear and whose
\* Snowball has recorded a successful poll, and a bag holds one vote for one
\* of them, fewer than Alpha: the poll sets the flag of the head; the empty
\* bag does the same.
C28_Witness ==
    /\ ~ts.blocks[ts.head].shouldFalter
    /\ ts.blocks[ts.head].sb # NoSb
    /\ ts.blocks[ts.head].sb.confidence > 0
    /\ Cardinality(Tree) >= 3
    /\ \E v \in BelowAlphaVotes :
           /\ ProcessingVotes(v) > 0
           /\ \E c \in RecordPoll(ts, v) : c.blocks[c.head].shouldFalter
    /\ EmptyBag \in BelowAlphaVotes
    /\ \E c \in RecordPoll(ts, EmptyBag) : c.blocks[c.head].shouldFalter


\* ----------------------------------------------- confidence below the head
\* The parameter set of the runs that follow the confidence of every node:
\* both commit thresholds ask for two polls.
ConfidenceParameters == [K |-> 3, Alpha |-> 2, BetaVirtuous |-> 2, BetaRogue |-> 2]
\* Number of RecordPoll calls followed in one behaviour.
MaxConfidenceRounds == 4

\* Blocks 1 and 2 compete below the last accepted block, block 3 builds on
\* block 1, and the last block builds on block 1 or on block 3.
ConfidenceUniverses ==
    {f \in Universes : f[1] = GenesisID /\ f[2] = GenesisID /\ f[3] = 1 /\ f[NumBlocks] \in {1, 3}}

\* The votes of the bag for id and for the blocks below it, counted over the
\* undecided blocks of the tree.
VotesFor(c, id, votes) ==
    BagLen([x \in IDs |-> IF /\ x \in DOMAIN c.blocks
                             /\ ~Decided(c.status[x])
                             /\ (x = id \/ IsAncestor(id, x))
                          THEN votes[x] ELSE 0])

\* The child of n the round carries an alpha majority to, Empty when the
\* round carries none through n.
MajorityBelow(c, n, votes) ==
    IF n \in DOMAIN c.blocks /\ \E ch \in c.blocks[n].children : VotesFor(c, ch, votes) >= Alpha
    THEN CHOOSE ch \in c.blocks[n].children : VotesFor(c, ch, votes) >= Alpha
    ELSE Empty

InitConfidence ==
    /\ handler = <<>>
    /\ index = <<>>
    /\ multiput = <<>>
    /\ params = ConfidenceParameters
    /\ rounds = <<>>
    /\ boot = <<>>
    /\ sender = <<>>
    /\ parent \in ConfidenceUniverses
    /\ ts = Initialize(GenesisID)
    /\ mgr = ManagerInitialize
    /\ bs = BootstrapperInitialize(GenesisID)
    /\ engine = TransitiveInitialize({}, Empty)

\* Add of a block whose parent was issued.
AddIssued(blk) ==
    /\ ~Issued(ts, blk)
    /\ parent[blk] = GenesisID \/ Issued(ts, parent[blk])
    /\ ts' = Add(ts, blk)
    /\ UNCHANGED <<handler, index, multiput, params, rounds, boot, sender, parent, mgr, bs, engine>>

\* RecordPoll; rounds notes for every node the child the round carried a
\* majority to.
RecordPollRound(votes) ==
    /\ Len(rounds) < MaxConfidenceRounds
    /\ ts' \in RecordPoll(ts, votes)
    /\ rounds' = Append(rounds, [n \in IDs |-> MajorityBelow(ts, n, votes)])
    /\ UNCHANGED <<handler, index, multiput, params, boot, sender, parent, mgr, bs, engine>>

NextConfidence ==
    \/ \E blk \in BlockIDs : AddIssued(blk)
    \/ \E votes \in VoteBags : RecordPollRound(votes)

SpecConfidence == InitConfidence /\ [][NextConfidence]_vars

\* ------------------------------------- claims on confidence below the head
\* The rounds m - k + 1 .. m all carried an alpha majority through n.
SuccessfulRun(n, m, k) == k <= m /\ \A i \in (m - k + 1)..m : rounds[i][n] # Empty

\* The last round that carried an alpha majority through n, 0 without one.
LastSuccessful(n) ==
    LET S == {i \in 1..Len(rounds) : rounds[i][n] # Empty}
    IN IF S = {} THEN 0 ELSE CHOOSE i \in S : \A j \in S : j <= i

\* C29: the confidence of a node counts consecutive rounds only. For every
\* node n of the tree with a Snowball instance, the confidence of the
\* instance is at most the length of the run of consecutive successful
\* rounds that ends with the last round that carried an alpha majority
\* through n: a round without one in between has recorded an unsuccessful
\* poll before the next successful poll was applied. The instance is
\* finalized only after Beta successful polls in Beta consecutive rounds.
C29_ConfidenceCountsConsecutiveRounds ==
    \A n \in Tree :
        ts.blocks[n].sb # NoSb =>
            /\ SuccessfulRun(n, LastSuccessful(n), ts.blocks[n].sb.confidence)
            /\ sbFinalized(ts.blocks[n].sb) =>
                   \E m \in 1..Len(rounds) : SuccessfulRun(n, m, BetaVirtuous)


\* ------------------------------------------------ claims on the MultiPut
\* The first stored block: its parent has the status Unknown.
GenesisStored == CHOOSE b \in StoredIDs : ParentOf(b) \notin StoredIDs

C32_OracleOptionsDeliveredAtFinish ==
    [][(/\ ~engine.bootstrapped
        /\ engine'.bootstrapped
        /\ engine.oracle = GenesisID
        /\ \A i \in 1..2 : Options(engine, GenesisID)[i] \notin engine.invalid)
       => LET o1 == Options(engine, GenesisID)[1]
              o2 == Options(engine, GenesisID)[2]
              c == engine'.consensus
          IN /\ c.head = GenesisID
             /\ c.blocks[GenesisID].children = {o1, o2}
             /\ {o1, o2} \subseteq DOMAIN c.blocks
             /\ c.status[o1] = "Processing" /\ c.status[o2] = "Processing"
             /\ Preference(c) = o1
             /\ engine'.vmPreference = o1
             /\ engine'.queried = {o1, o2}
             /\ Cardinality(DOMAIN engine'.polls) = 2]_vars

\* Bootstrapping has finished on an oracle block with two valid options and
\* no message has been handled since: two polls are outstanding.
C32_Witness ==
    /\ engine.bootstrapped
    /\ engine.oracle = GenesisID
    /\ engine.invalid = {}
    /\ engine.queried = {1, 2}
    /\ engine.vmPreference = 1
    /\ Cardinality(DOMAIN engine.polls) = 2
    /\ engine.recordPolls = <<>>


\* ------------------------------------------------ claims on expired messages
\* C33: when Dispatch goes on from a message it popped and the deadline of
\* the message has passed, the message is not handed to the engine: no
\* engine method is invoked, the expired metric grows by one,
\* OnFinishedHandling has been called once on the message, and Dispatch is
\* back at the head of its loop with the unprocessed messages as they were.
\* A message whose deadline has not passed, and every message whose
\* ExpirationTime is the zero time, leaves the metric as it was and is
\* handed to the engine.
C33_ExpiredMessageDropped ==
    [][(handler.pc["Dispatch"] = "popped" /\ handler'.pc["Dispatch"] # "popped")
       => IF handler.msg.expirationTime # 0 /\ handler.clock > handler.msg.expirationTime
          THEN /\ handler'.running = handler.running
               /\ handler'.expired = handler.expired + 1
               /\ handler'.finished = 1
               /\ handler'.pc["Dispatch"] = "loop"
               /\ handler'.unprocessedMsgs = handler.unprocessedMsgs
          ELSE /\ handler'.expired = handler.expired
               /\ handler'.finished = 0
               /\ [thread |-> "Dispatch", method |-> EngineMethod(handler.msg.op)]
                      \in handler'.running]_vars

\* A message was dropped as expired while another one was unprocessed, and
\* Dispatch has popped that one, which carries no deadline, with the clock
\* at its last time.
C33_Witness ==
    /\ handler.expired = 1
    /\ handler.pc["Dispatch"] = "popped"
    /\ handler.msg.expirationTime = 0
    /\ handler.clock = MaxClock
    /\ ~handler.closing

\* ------------------------------------------------ the contents of the index
\* Maximum number of containers that can be fetched in one GetContainerRange.
MaxFetchedByRange == 1024

\* The most containers the index with contents accepts.
MaxIndexed == 3

\* The container ids accepted are 1..NumIndexedIDs.
NumIndexedIDs == 3

\* The largest numToFetch within MaxFetchedByRange that is asked for.
MaxNumToFetch == 3

IndexedIDs == 1..NumIndexedIDs

IndexedBytes == {10, 11}

IndexTimes == {1, 2}

codecVersion == 0

\* wrappers.LongLen: a uint64 is packed into 8 bytes.
LongLen == 8

RECURSIVE PackBytes(_, _)
PackBytes(n, len) ==
    IF len = 0 THEN <<>> ELSE PackBytes(n \div 256, len - 1) \o <<n % 256>>

\* Packer.PackLong: the big-endian bytes of a uint64.
PackLong(n) == PackBytes(n, LongLen)

RECURSIVE UnpackBytes(_, _)
UnpackBytes(bytes, acc) ==
    IF bytes = <<>> THEN acc ELSE UnpackBytes(Tail(bytes), acc * 256 + Head(bytes))

\* Packer.UnpackLong.
UnpackLong(bytes) == UnpackBytes(bytes, 0)

\* The Container the index stores.
IndexedContainer(containerID, containerBytes, timestamp) ==
    [ID |-> containerID, Bytes |-> containerBytes, Timestamp |-> timestamp]

\* codec.Marshal: the version, then the fields of the container in order.
Marshal(version, container) ==
    <<version, container.Bytes, container.ID, container.Timestamp>>

\* codec.Unmarshal.
Unmarshal(bytes) == IndexedContainer(bytes[3], bytes[2], bytes[4])

\* database.Put and database.Get on a database held as a function of its keys.
DBPut(db, key, value) ==
    [k \in DOMAIN db \cup {key} |-> IF k = key THEN value ELSE db[k]]

DBHas(db, key) == key \in DOMAIN db

\* What a method returns: a value, or an error.
Value(v) == [err |-> FALSE, val |-> v]

Error == [err |-> TRUE, val |-> 0]

\* newIndex on an empty database, with the clock it is given. accepted is
\* the record of the successful calls of Accept, in order; ret what the last
\* call of a getter was and what it returned.
newIndexContents(clock) ==
    [clock |-> clock,
     nextAcceptedIndex |-> 0,
     indexToContainer |-> <<>>,
     containerToIndex |-> <<>>,
     accepted |-> <<>>,
     ret |-> <<>>]

\* index.Accept: the container is put under the bytes of nextAcceptedIndex,
\* the bytes of that index under the container's id, and nextAcceptedIndex
\* is incremented.
indexAccept(i, containerID, containerBytes) ==
    LET p == PackLong(i.nextAcceptedIndex)
        bytes == Marshal(codecVersion, IndexedContainer(containerID, containerBytes, i.clock))
    IN [i EXCEPT !.indexToContainer = DBPut(@, p, bytes),
                 !.containerToIndex = DBPut(@, containerID, p),
                 !.nextAcceptedIndex = @ + 1]

\* index.lastAcceptedIndex: the index of the last accepted container and
\* whether there is one.
indexLastAcceptedIndex(i) ==
    [index |-> IF i.nextAcceptedIndex = 0 THEN 0 ELSE i.nextAcceptedIndex - 1,
     ok |-> i.nextAcceptedIndex # 0]

\* index.getContainerByIndex.
indexGetContainerByIndex(i, n) ==
    LET last == indexLastAcceptedIndex(i)
    IN IF ~last.ok \/ n > last.index THEN Error
       ELSE IF ~DBHas(i.indexToContainer, PackLong(n)) THEN Error
       ELSE Value(Unmarshal(i.indexToContainer[PackLong(n)]))

Min64(a, b) == IF a < b THEN a ELSE b

\* GetContainerRange ends one index too early.
indexGetContainerRangeShort(i, startIndex, numToFetch) ==
    LET last == indexLastAcceptedIndex(i)
    IN IF numToFetch = 0 \/ numToFetch > MaxFetchedByRange THEN Error
       ELSE IF ~last.ok \/ startIndex > last.index THEN Error
       ELSE LET lastIndex == Min64(startIndex + numToFetch - 1, last.index)
            IN Value([n \in 1..(lastIndex - startIndex) |->
                      Unmarshal(i.indexToContainer[PackLong(startIndex + n - 1)])])

\* index.GetContainerRange: the containers at startIndex .. lastIndex.
indexGetContainerRange(i, startIndex, numToFetch) ==
    LET last == indexLastAcceptedIndex(i)
    IN IF numToFetch = 0 \/ numToFetch > MaxFetchedByRange THEN Error
       ELSE IF ~last.ok \/ startIndex > last.index THEN Error
       ELSE LET lastIndex == Min64(startIndex + numToFetch - 1, last.index)
            IN IF \E j \in startIndex..lastIndex : ~DBHas(i.indexToContainer, PackLong(j))
               THEN Error
               ELSE Value([n \in 1..(lastIndex - startIndex + 1) |->
                           Unmarshal(i.indexToContainer[PackLong(startIndex + n - 1)])])

\* index.GetIndex.
indexGetIndex(i, containerID) ==
    IF ~DBHas(i.containerToIndex, containerID) THEN Error
    ELSE Value(UnpackLong(i.containerToIndex[containerID]))

\* index.GetLastAccepted.
indexGetLastAccepted(i) ==
    LET last == indexLastAcceptedIndex(i)
    IN IF ~last.ok THEN Error ELSE indexGetContainerByIndex(i, last.index)

\* The arguments the getters are called with.
IndexArgs == 0..MaxIndexed

NumsToFetch == 0..MaxNumToFetch \cup {MaxFetchedByRange + 1}

\* A call of Accept returns without error.
AcceptReturns(containerID, containerBytes) ==
    /\ index.nextAcceptedIndex < MaxIndexed
    /\ index' = [indexAccept(index, containerID, containerBytes) EXCEPT
                     !.accepted = Append(@, IndexedContainer(containerID, containerBytes,
                                                             index.clock)),
                     !.ret = <<>>]
    /\ UNCHANGED <<handler, multiput, params, rounds, boot, sender, parent, ts, mgr, bs, engine>>

GetIndexReturns(containerID) ==
    /\ index' = [index EXCEPT !.ret = [call |-> "GetIndex", args |-> <<containerID>>,
                                       result |-> indexGetIndex(index, containerID)]]
    /\ UNCHANGED <<handler, multiput, params, rounds, boot, sender, parent, ts, mgr, bs, engine>>

GetContainerByIndexReturns(n) ==
    /\ index' = [index EXCEPT !.ret = [call |-> "GetContainerByIndex", args |-> <<n>>,
                                       result |-> indexGetContainerByIndex(index, n)]]
    /\ UNCHANGED <<handler, multiput, params, rounds, boot, sender, parent, ts, mgr, bs, engine>>

GetContainerRangeReturns(startIndex, numToFetch) ==
    /\ index' = [index EXCEPT
                     !.ret = [call |-> "GetContainerRange", args |-> <<startIndex, numToFetch>>,
                              result |-> indexGetContainerRange(index, startIndex, numToFetch)]]
    /\ UNCHANGED <<handler, multiput, params, rounds, boot, sender, parent, ts, mgr, bs, engine>>

GetLastAcceptedReturns ==
    /\ index' = [index EXCEPT !.ret = [call |-> "GetLastAccepted", args |-> <<>>,
                                       result |-> indexGetLastAccepted(index)]]
    /\ UNCHANGED <<handler, multiput, params, rounds, boot, sender, parent, ts, mgr, bs, engine>>

InitIndexContents ==
    /\ handler = <<>>
    /\ index \in {newIndexContents(clock) : clock \in IndexTimes}
    /\ multiput = <<>>
    /\ params = DefaultParameters
    /\ rounds = <<>>
    /\ boot = <<>>
    /\ sender = <<>>
    /\ parent = [b \in BlockIDs |-> GenesisID]
    /\ ts = Initialize(GenesisID)
    /\ mgr = ManagerInitialize
    /\ bs = BootstrapperInitialize(GenesisID)
    /\ engine = TransitiveInitialize({}, Empty)

NextIndexContents ==
    \/ \E containerID \in IndexedIDs, containerBytes \in IndexedBytes :
           AcceptReturns(containerID, containerBytes)
    \/ \E containerID \in IndexedIDs : GetIndexReturns(containerID)
    \/ \E n \in IndexArgs : GetContainerByIndexReturns(n)
    \/ \E startIndex \in IndexArgs, numToFetch \in NumsToFetch :
           GetContainerRangeReturns(startIndex, numToFetch)
    \/ GetLastAcceptedReturns

SpecIndexContents == InitIndexContents /\ [][NextIndexContents]_vars

\* ------------------------------------------------ claims on the order of the index
\* The indices at which a container id was accepted.
AcceptedAt(containerID) ==
    {n \in 0..(Len(index.accepted) - 1) : index.accepted[n + 1].ID = containerID}

\* C34: containers are indexed in their order of acceptance. With the
\* container of the n-th successful Accept (n counted from 0) called c:
\* GetContainerByIndex(n) returns c; GetIndex of an id accepted once, as the
\* n-th, returns n; GetLastAccepted returns the container accepted last; and
\* GetContainerRange(s, k), with s at most the last index and k at least 1,
\* returns the containers at indices s .. min(s+k-1, last) in that order.
C34_IndexedInOrderOfAcceptance ==
    LET r == index.ret
        accepted == index.accepted
        last == Len(accepted) - 1
    IN r # <<>> =>
        /\ (r.call = "GetContainerByIndex" /\ r.args[1] <= last)
               => r.result = Value(accepted[r.args[1] + 1])
        /\ (r.call = "GetIndex" /\ Cardinality(AcceptedAt(r.args[1])) = 1)
               => /\ ~r.result.err
                  /\ r.result.val \in AcceptedAt(r.args[1])
        /\ (r.call = "GetLastAccepted" /\ last >= 0)
               => r.result = Value(accepted[last + 1])
        /\ (r.call = "GetContainerRange" /\ r.args[1] <= last
                /\ r.args[2] \in 1..MaxNumToFetch)
               => r.result = Value(SubSeq(accepted, r.args[1] + 1,
                                          Min64(r.args[1] + r.args[2], last + 1)))

\* Three containers of distinct ids were accepted and GetContainerRange was
\* asked for two of them from index 1 on.
C34_Witness ==
    /\ Len(index.accepted) = 3
    /\ \A id \in IndexedIDs : Cardinality(AcceptedAt(id)) = 1
    /\ index.ret # <<>>
    /\ index.ret.call = "GetContainerRange"
    /\ index.ret.args = <<1, 3>>
    /\ ~index.ret.result.err
    /\ Len(index.ret.result.val) = 2

\* ------------------------------------------------ claims on Put
\* C35: once bootstrapped, after Put(vdr, requestID, blkID, bytes) for an
\* outstanding Get (vdr, requestID) no request keyed (vdr, requestID) is
\* left in blkReqs, whether the bytes fail to parse, parse to the requested
\* block, or parse to a block of another id.
C35_PutClearsRequest ==
    engine.bootstrapped =>
        \A k \in DOMAIN engine.blkReqs, blk \in EngineBlockIDs, parses \in BOOLEAN :
            \A e \in handle(Put(engine, k[1], k[2], blk, parses)) :
                k \notin DOMAIN e.blkReqs

\* ------------------------------------------------ claims on the head
\* C36: whenever RecordPoll has returned, the Snowball instance of the head
\* is not finalized: what the head has finalized is accepted, and made the
\* head, within the RecordPoll call, also when the Snowball instance of the
\* new head was finalized in an earlier round.
C36_HeadNotFinalized ==
    ~ts.blocks[ts.head].sb.nil => ~sbFinalized(ts.blocks[ts.head].sb)

\* ------------------------------------------------ claims on the Sender's requests
\* C37: for every request and every node in its target set the Sender has
\* either registered the request with the router or enqueued one local
\* failure message of the matching type, never both and never neither.
C37_RegisteredOrFailedNeverBoth ==
    \A i \in 1..Len(sender.calls) :
        \A n \in sender.calls[i].nodeIDs :
            \/ RequestOf(i, n) \in sender.registered /\ FailuresOf(i, n) = 0
            \/ RequestOf(i, n) \notin sender.registered /\ FailuresOf(i, n) = 1

\* A PushQuery went to this node, to a benched node and to a node the
\* network could not reach, and a PullQuery to a node that it did reach.
C37_Witness ==
    /\ Len(sender.calls) = 2
    /\ sender.calls[1].op = "PushQuery"
    /\ sender.calls[1].nodeIDs = NodeIDs
    /\ RequestOf(1, sender.NodeID) \in sender.registered
    /\ \E n \in sender.calls[1].nodeIDs \cap sender.calls[1].benched : FailuresOf(1, n) = 1
    /\ \E n \in sender.calls[1].nodeIDs \ (sender.calls[1].benched \cup sender.calls[1].sentTo) :
          n # sender.NodeID /\ FailuresOf(1, n) = 1
    /\ sender.calls[2].op = "PullQuery"
    /\ \E n \in sender.calls[2].nodeIDs \cap sender.calls[2].sentTo :
          RequestOf(2, n) \in sender.registered /\ RequestOf(2, n) \in sender.sent

\* ------------------------------------------------ claims on a late GetFailed
\* C38: once the Put for an outstanding Get (vdr, requestID) has delivered
\* the requested block, a GetFailed(vdr, requestID) finds no outstanding
\* request and leaves the engine as it is: blkReqs, pending, the blocked
\* actions and consensus are unchanged.
C38_LateGetFailedHarmless ==
    engine.bootstrapped =>
        \A k \in DOMAIN engine.blkReqs :
            \A e \in handle(Put(engine, k[1], k[2], engine.blkReqs[k], TRUE)) :
                /\ k \notin DOMAIN e.blkReqs
                /\ handle(GetFailed(e, k[1], k[2])) = {e}

\* ------------------------------------------------ claims on the bootstrapping engine
\* The engine e once the chain is marked as bootstrapped.
Bootstrapped(e) == [e EXCEPT !.bootstrapped = TRUE]

\* C39: while the chain is not bootstrapped, Put, GetFailed, PullQuery,
\* PushQuery, Chits, QueryFailed and Notify are dropped: each leaves the
\* engine as it is (blkReqs, pending, the blocked actions, the polls and
\* consensus) and sends nothing.
C39_DroppedWhileBootstrapping ==
    ~engine.bootstrapped =>
        /\ \A msg \in ConsensusMsgs : handle(engineCall(engine, msg)) = {engine}
        /\ \A blk \in EngineBlockIDs : handle(Notify(engine, blk)) = {engine}

\* The chain is not bootstrapped, and a Put, a PullQuery, a PushQuery, a
\* Chits and a Notify that are dropped would each change the engine if the
\* chain were bootstrapped.
C39_Witness ==
    /\ ~engine.bootstrapped
    /\ \A op \in {"Put", "PullQuery", "PushQuery", "Chits"} :
          \E msg \in ConsensusMsgs :
              /\ msg.op = op
              /\ handle(engineCall(engine, msg)) = {engine}
              /\ handle(engineCall(Bootstrapped(engine), msg)) # {Bootstrapped(engine)}
    /\ \E blk \in EngineBlockIDs :
          handle(Notify(Bootstrapped(engine), blk)) # {Bootstrapped(engine)}

\* ------------------------------------------------ claims on the order of the phases
\* C40: the accepted-query phase never completes before frontier-gathering
\* has: the Accepted and GetAcceptedFailed messages of the beacons are
\* counted only after GetAccepted has been sent, and ForceAccepted is never
\* called while a beacon is in pendingAcceptedFrontier, whatever the order
\* in which the messages arrive.
C40_AcceptedQueryAfterFrontier ==
    /\ DOMAIN boot.replies # {} => GetAcceptedSent # <<>>
    /\ boot.forceAccepted # <<>> => boot.pendingAcceptedFrontier = {}

====
